---- MODULE Spec2Model ----
(***************************************************************************)
(* react-copy-write: a copy-on-write store for React.                      *)
(*                                                                         *)
(* The repository holds several iterations of createCopyOnWriteState:      *)
(*   "select"    src/src/index.js 24-161    mutate(draft, state), `select` *)
(*               prop, shallowEqual memoization, initialState, reset of    *)
(*               currentState on Provider unmount                          *)
(*   "middle"    src/src/index.js 224-395   update through a middleware    *)
(*               chain over a Store object                                 *)
(*   "optimized" src/src/index.js 465-729   update, createSelector and the *)
(*               observedBits optimisation (bit pool, reference counts)    *)
(*   "initial"   src/unnamed/part_000 48-176   mutate, initialState prop   *)
(*   "update"    src/unnamed/part_000 212-334 (compiled: src/lib/index.js) *)
(*               update, createMutator                                     *)
(* The variable `variant` says which iteration an instance runs.           *)
(*                                                                         *)
(* JavaScript objects have identity: a snapshot is a record                *)
(* [ref |-> r, val |-> fields]; `===` on objects compares ref.  A fresh    *)
(* object takes the smallest reference no live object holds: an even one   *)
(* for a snapshot made by produce or passed as initialState, an odd one    *)
(* for a state object made by React's setState.                            *)
(***************************************************************************)
EXTENDS Integers, Sequences, FiniteSets, TLC

VARIABLES
  variant,                 \* which iteration of createCopyOnWriteState this is
  middlewares,             \* the second argument of createCopyOnWriteState ("middle")
  currentState,            \* closure variable currentState (Store.state in "middle")
  providerListener,        \* closure variable providerListener: Null or a Provider
  provider,                \* the CopyOnWriteStoreProvider instances
  consumer,                \* the CopyOnWriteConsumer instances (`referenced`: the
                           \* selectors componentDidMount passed to optimizeSelector)
  rendered,                \* Consumers whose render callback ran in the last operation
  last,                    \* the last operation and what it did (history)
  observedBits,            \* selector.observedBits, per selector
  selectorBits,            \* the stack of free bits
  optimizationQueue,       \* selectors waiting for a slot
  selectorReferenceCount,  \* Map selector -> count (0: no entry)
  optimizedSelectors,      \* Set of optimized selectors
  fillLevel,               \* the Consumers of selectors 1..fillLevel are mounted
  changedBits              \* result of the last calculateChangedBits call

vars == <<variant, middlewares, currentState, providerListener, provider, consumer, rendered,
          last, observedBits, selectorBits, optimizationQueue,
          selectorReferenceCount, optimizedSelectors, fillLevel, changedBits>>

storeVars == <<currentState, providerListener, provider>>
optVars == <<observedBits, selectorBits, optimizationQueue,
             selectorReferenceCount, optimizedSelectors>>

-----------------------------------------------------------------------------
(* Bounds of the model *)

NumProviders == 2     \* Provider instances that may be rendered
NumConsumers == 2     \* Consumer instances besides the fillers
NumActive == 2        \* createSelector-tagged selectors the Consumers choose from
NumFill == 29         \* further tagged selectors, each used by one Consumer of the filler tree
MaxCount == 2         \* cap on a selector's reference count
MaxQueue == 2         \* cap on the length of optimizationQueue
NumExtra == 1         \* tagged selectors used only where every selector is referenced
MaxFurther == 2       \* cap on the reference calls that follow the first round
MaxWaiting == 3       \* cap on the Consumers that mount beside a full tree
MaxId == 3            \* cap on the version id of a Consumer
MaxValue == 3         \* cap on the number a recipe counts a field up to
MaxMiddlewares == 2   \* the longest list of middlewares given to createCopyOnWriteState
MaxBatch == 2         \* the most setState calls React queues before it processes them

(* Program constants *)

MAX_SIGNED_31_BIT_INT == 1073741823
DEOPTIMIZED_SELECTOR == 1

-----------------------------------------------------------------------------
(* Values *)

Variants == {"select", "middle", "optimized", "initial", "update"}

Null == 0
Providers == 1..NumProviders
Consumers == 1..NumConsumers

Fields == {"a", "b"}
FieldValues == {0, 1}
\* a field holds 0 or 1, or -1 when the object does not have it (undefined)
Contents == [Fields -> FieldValues \cup {-1}]

\* what a field holds after `draft.f = undefined`: the object has the key
Undefined == -2

\* A field may also hold an object { name: 0 or 1 }: a number n >= SubBase
\* stands for the reference of such an object, and n % 2 for its name.  Two
\* fields hold the same object exactly when they hold the same number.
SubBase == 10
IsSub(n) == n >= SubBase
NameOf(n) == n % 2

\* an object has a reference r >= 0; a primitive has none (-1)
Obj(r, v) == [ref |-> r, val |-> v]
PrimVal(n) == [ref |-> -1, val |-> n]
IsPrim(x) == x.ref < 0

\* the value of a field that holds an object { name: v }
IsNested(x) == IsPrim(x) /\ IsSub(x.val)

\* an array has a reference and elements, themselves values
Arr(r, e) == [ref |-> r, elems |-> e]
IsArray(x) == "elems" \in DOMAIN x

\* a !== b : objects by reference, primitives by value
StrictNotEqual(x, y) ==
  IF x.ref # y.ref THEN TRUE
  ELSE IF IsPrim(x) THEN x.val # y.val
  ELSE FALSE

baseState == Obj(0, [f \in Fields |-> 0])

(* Selectors.  identityFn is 0; -1 and -2 are plain (untagged) functions   *)
(* state => state.a and state => state.b; 1..NumFill+NumActive are the     *)
(* functions handed to createSelector, odd ones reading a, even ones b.    *)
identityFn == 0
Untagged == {identityFn, -1, -2}
Fillers == 1..NumFill
Active == (NumFill + 1)..(NumFill + NumActive)
Extra == (NumFill + NumActive + 1)..(NumFill + NumActive + NumExtra)
Tagged == Fillers \cup Active \cup Extra
Selectors == Untagged \cup Tagged

FieldOf(s) == IF s % 2 # 0 THEN "a" ELSE "b"

\* selector(state)
Apply(s, state) ==
  IF s = identityFn THEN state
  ELSE PrimVal(state.val[FieldOf(s)])

NoInitialState == PrimVal(-1)     \* props.initialState is undefined

\* `pending` is the update queue of the instance: the arguments of the
\* setState calls React has not processed yet
NoProvider == [status |-> "unmounted", state |-> baseState, pending |-> <<>>]

NoConsumer == [mounted |-> FALSE, under |-> Null, multi |-> FALSE, sels |-> <<>>,
               shown |-> <<>>, bits |-> 0, within |-> Null, id |-> 0,
               referenced |-> <<>>]

\* What `last` records of an operation: its name, whether it returned (ok) or
\* threw, the instance or selector it was about (who), the kind of recipe
\* (arg), the reference produce returned (produced, -1: it was not called),
\* how often the provider listener was invoked (calls) and the reference of
\* the snapshot the listener read (read, -1: none).
\* Reverse of a sequence: Array.prototype.reverse
Reverse(q) == [i \in 1..Len(q) |-> q[Len(q) + 1 - i]]

\* The built-in middleware, and the user's middlewares by their position in
\* the list.  A user middleware `getState => next => fn => ...` either hands
\* fn on with next(fn) ("pass") or returns without calling next ("drop").
updateMiddleWare == 0
MiddlewareKinds == {"pass", "drop"}

\* middlewares.forEach(m => (chainedProduce = m(store.getState)(chainedProduce)))
\* over the list q: every element wraps what was built before it.  The result
\* is the layers of chainedProduce from the outermost to the one that calls
\* produce.
RECURSIVE WrapEach(_, _)
WrapEach(q, chained) ==
  IF q = <<>> THEN chained ELSE WrapEach(Tail(q), <<Head(q)>> \o chained)

\* (mutant) the list is not reversed before the chain is built
chainedProduce_NotReversed ==
  WrapEach(Append([i \in 1..Len(middlewares) |-> i], updateMiddleWare), <<>>)

\* middlewares = middlewares.concat(updateMiddleWare); .slice(); .reverse();
\* forEach(...)
chainedProduce ==
  WrapEach(Reverse(Append([i \in 1..Len(middlewares) |-> i], updateMiddleWare)), <<>>)

\* chainedProduce(fn): the layers the call enters, in order.  A layer that
\* does not call next ends the call.
RECURSIVE Entered(_)
Entered(layers) ==
  IF layers = <<>> THEN <<>>
  ELSE IF Head(layers) = updateMiddleWare \/ middlewares[Head(layers)] = "pass"
       THEN <<Head(layers)>> \o Entered(Tail(layers))
       ELSE <<Head(layers)>>

\* the call reaches the built-in middleware, which calls produce
ReachesProduce ==
  \E i \in 1..Len(Entered(chainedProduce)) : Entered(chainedProduce)[i] = updateMiddleWare

\* `passed`: for an update of the iteration with middlewares that got past the
\* invariant, the layers of chainedProduce it entered
Did(op, ok, who, arg, produced, calls, read) ==
  [op |-> op, ok |-> ok, who |-> who, arg |-> arg, produced |-> produced,
   calls |-> calls, read |-> read,
   passed |-> IF op = "mutate" /\ variant = "middle" /\ providerListener # Null
              THEN Entered(chainedProduce) ELSE <<>>]

Quiet(op, ok, who) == Did(op, ok, who, "", -1, 0, -1)

NoOp == Quiet("init", TRUE, 0)

-----------------------------------------------------------------------------
(* Object allocation *)

RefsOfSeq(q) == {q[i].ref : i \in 1..Len(q)}

\* the objects something other than Provider p's this.state refers to
HeldRefs(p) ==
  {0, currentState.ref}
  \cup {provider[q].state.ref : q \in Providers \ {p}}
  \cup UNION {RefsOfSeq(provider[q].pending) : q \in Providers}
  \cup UNION {RefsOfSeq(consumer[c].shown) : c \in Consumers}

LiveRefs == HeldRefs(Null) 

\* the nested objects a snapshot or a selected value refers to
SubsOf(x) ==
  IF IsArray(x) THEN {}
  ELSE IF IsPrim(x) THEN {n \in {x.val} : IsSub(n)}
  ELSE {n \in {x.val[f] : f \in Fields} : IsSub(n)}

LiveSubs ==
  SubsOf(currentState)
  \cup UNION {SubsOf(provider[q].state) : q \in Providers}
  \cup UNION {UNION {SubsOf(consumer[c].shown[i]) : i \in 1..Len(consumer[c].shown)} :
                c \in Consumers}

\* a new object { name: v }: the smallest reference not in use
FreshSub(v) ==
  CHOOSE n \in SubBase..(SubBase + 2 * Cardinality(LiveSubs) + 1) :
    /\ NameOf(n) = v
    /\ n \notin LiveSubs
    /\ \A m \in SubBase..(n - 1) : NameOf(m) = v => m \in LiveSubs

\* the smallest reference of the given parity (0: even, 1: odd) not in `used`
FreshRef(used, parity) ==
  CHOOSE n \in 0..(2 * Cardinality(used) + 3) :
    /\ n % 2 = parity
    /\ n \notin used
    /\ \A m \in 0..(n - 1) : m % 2 = parity => m \in used

-----------------------------------------------------------------------------
(* Bitwise operators on non-negative 31-bit integers *)

RECURSIVE BitAnd(_, _)
BitAnd(x, y) ==
  IF x = 0 \/ y = 0 THEN 0
  ELSE (x % 2) * (y % 2) + 2 * BitAnd(x \div 2, y \div 2)

RECURSIVE BitOr(_, _)
BitOr(x, y) ==
  IF x = 0 THEN y
  ELSE IF y = 0 THEN x
  ELSE (IF x % 2 = 1 \/ y % 2 = 1 THEN 1 ELSE 0) + 2 * BitOr(x \div 2, y \div 2)

-----------------------------------------------------------------------------
(* immer's produce and React's setState, as the store uses them *)

\* The recipes a caller may pass: draft => {}, draft => { throw },
\* draft => { draft.f = v }, draft => { delete draft.f } (for a field the
\* snapshot has).
Recipes ==
  {[op |-> "noop", f |-> "a", v |-> 0], [op |-> "throw", f |-> "a", v |-> 0],
   [op |-> "set", f |-> "a", v |-> 0], [op |-> "set", f |-> "a", v |-> 1],
   [op |-> "set", f |-> "b", v |-> 0]}

RecipesWithDelete == Recipes \cup {[op |-> "del", f |-> "b", v |-> 0]}

\* draft => { draft.f = { name: v } } and draft => { draft.f.name = v } (for a
\* field that holds an object), beside assignments of a number
NestedRecipes ==
  {[op |-> "setObj", f |-> f, v |-> 0] : f \in Fields}
  \cup {[op |-> "setIn", f |-> f, v |-> v] : f \in Fields, v \in FieldValues}
  \cup {[op |-> "set", f |-> "a", v |-> v] : v \in FieldValues}

\* draft => { draft.a = { name: 0 } } and draft => { draft.a.name = 1 }
ObjectRecipes ==
  {[op |-> "setObj", f |-> "a", v |-> 0], [op |-> "setIn", f |-> "a", v |-> 1]}

\* The recipe of a call of the function createMutator((draft, x) => {
\* draft.a = x }) returned: its kind names the argument of the call, its v is
\* what fn receives as x.
MutatorCalls == {"call0", "call1"}
CallArg(kind) == IF kind = "call1" THEN 1 ELSE 0

\* (mutant) produce returns a deep copy: every nested object is a new one
produce_CopiesDeep(base, r, fresh) ==
  LET copy(n) == IF IsSub(n) THEN n + 2 * (Cardinality(LiveSubs) + 1) ELSE n IN
  CASE r.op = "set" /\ base.val[r.f] # r.v ->
         Obj(fresh, [f \in Fields |-> IF f = r.f THEN r.v ELSE copy(base.val[f])])
    [] r.op = "del" -> Obj(fresh, [base.val EXCEPT ![r.f] = -1])
    [] r.op = "setObj" ->
         Obj(fresh, [f \in Fields |-> IF f = r.f THEN FreshSub(r.v) ELSE copy(base.val[f])])
    [] r.op = "setIn" /\ IsSub(base.val[r.f]) /\ NameOf(base.val[r.f]) # r.v ->
         Obj(fresh, [f \in Fields |-> IF f = r.f THEN FreshSub(r.v) ELSE copy(base.val[f])])
    [] OTHER -> base

\* (mutant) produce copies on every assignment, changed or not
produce_AlwaysCopies(base, r, fresh) ==
  CASE r.op = "set" -> Obj(fresh, [base.val EXCEPT ![r.f] = r.v])
    [] r.op = "del" -> Obj(fresh, [base.val EXCEPT ![r.f] = -1])
    [] OTHER -> base

\* produce(base, recipe): the base itself when the recipe changed nothing (an
\* assignment of the value a field already holds is no change), a new object
\* sharing the untouched fields otherwise.  An assignment inside a nested
\* object copies that object and the snapshot, nothing else.
produce(base, r, fresh) ==
  CASE r.op = "set" /\ base.val[r.f] # r.v -> Obj(fresh, [base.val EXCEPT ![r.f] = r.v])
    [] r.op = "del" -> Obj(fresh, [base.val EXCEPT ![r.f] = -1])
    [] r.op = "setObj" -> Obj(fresh, [base.val EXCEPT ![r.f] = FreshSub(r.v)])
    [] r.op = "setIn" /\ IsSub(base.val[r.f]) /\ NameOf(base.val[r.f]) # r.v ->
         Obj(fresh, [base.val EXCEPT ![r.f] = FreshSub(r.v)])
    [] r.op \in MutatorCalls /\ base.val[r.f] # r.v ->
         Obj(fresh, [base.val EXCEPT ![r.f] = r.v])
    [] r.op = "inc" /\ base.val[r.f] # r.v + 1 ->
         Obj(fresh, [base.val EXCEPT ![r.f] = r.v + 1])
    [] OTHER -> base

\* this.setState(partial): React merges the own properties of `partial` into a
\* new state object.
setState(prev, partial, fresh) ==
  Obj(fresh, [f \in Fields |-> IF partial.val[f] # -1 THEN partial.val[f]
                                ELSE prev.val[f]])

\* the own enumerable keys of an object or array
KeysOf(x) == IF IsArray(x) THEN 1..Len(x.elems) ELSE {f \in Fields : x.val[f] # -1}

\* (mutant) only identical values are equal
shallowEqual_ByReference(x, y) == ~StrictNotEqual(x, y)

\* fbjs shallowEqual: identical, or objects with the same keys and identical
\* values under every key.  A number is no object.
shallowEqual(x, y) ==
  IF ~StrictNotEqual(x, y) THEN TRUE
  ELSE IF IsPrim(x) \/ IsPrim(y)
       THEN \* two objects { name: v }: the one key holds identical values
            IsNested(x) /\ IsNested(y) /\ NameOf(x.val) = NameOf(y.val)
  ELSE IF IsArray(x) /\ IsArray(y)
       THEN /\ Len(x.elems) = Len(y.elems)
            /\ \A i \in 1..Len(x.elems) : ~StrictNotEqual(x.elems[i], y.elems[i])
  ELSE IF IsArray(x) \/ IsArray(y) THEN KeysOf(x) = {} /\ KeysOf(y) = {}
  ELSE x.val = y.val

-----------------------------------------------------------------------------
(* The selector optimisation of the "optimized" iteration.  The operators   *)
(* work on a record of the closure's collections:                           *)
(*   tag   selector.observedBits (0: the function has no such property)     *)
(*   pool  selectorBits          queue  optimizationQueue                   *)
(*   count selectorReferenceCount (0: no entry)   opt  optimizedSelectors   *)
(*   err   an invariant(...) threw                                          *)

RECURSIVE BitsFrom(_)
BitsFrom(bit) ==
  IF bit < MAX_SIGNED_31_BIT_INT THEN <<bit>> \o BitsFrom(bit * 2) ELSE <<>>

\* (mutant) the loop starts at bit 0, the sentinel
InitialSelectorBits_FromOne == BitsFrom(1)

\* let selectorBits = []; let bit = 2; while (bit < MAX...) { push; bit <<= 1 }
InitialSelectorBits == BitsFrom(2)

\* (mutant) a selector is created with the first bit of the pool
createSelector_TakesBit(s) == IF variant = "optimized" THEN 2 ELSE 0

\* createSelector(fn): the value of fn.observedBits afterwards.  The iteration
\* with the selector optimisation sets it to DEOPTIMIZED_SELECTOR; in the
\* iteration with the `select` prop createSelector is the identity and fn has
\* no such property (0).  The other iterations have no createSelector.
createSelector(s) == IF variant = "optimized" THEN DEOPTIMIZED_SELECTOR ELSE 0

Optimizer == [tag |-> observedBits, pool |-> selectorBits, queue |-> optimizationQueue,
              count |-> selectorReferenceCount, opt |-> optimizedSelectors,
              err |-> FALSE]

\* (mutant) the bit is read off the stack but left on it
optimizeSelector_NoPop(O, s) ==
  IF O.tag[s] = 0 THEN O
  ELSE LET O1 == [O EXCEPT !.count[s] = @ + 1] IN
    IF O1.tag[s] # DEOPTIMIZED_SELECTOR THEN O1
    ELSE IF Len(O1.pool) = 0 THEN [O1 EXCEPT !.queue = Append(@, s)]
    ELSE [O1 EXCEPT !.tag[s] = O1.pool[Len(O1.pool)],
                    !.opt = @ \cup {s}]

\* (mutant) a selector is queued while one bit is still on the stack
optimizeSelector_KeepsOne(O, s) ==
  IF O.tag[s] = 0 THEN O
  ELSE LET O1 == [O EXCEPT !.count[s] = @ + 1] IN
    IF O1.tag[s] # DEOPTIMIZED_SELECTOR THEN O1
    ELSE IF Len(O1.pool) <= 1 THEN [O1 EXCEPT !.queue = Append(@, s)]
    ELSE [O1 EXCEPT !.tag[s] = O1.pool[Len(O1.pool)],
                    !.pool = SubSeq(@, 1, Len(@) - 1),
                    !.opt = @ \cup {s}]

\* (mutant) a reference sets the count to one instead of adding one
optimizeSelector_CountsOnce(O, s) ==
  IF O.tag[s] = 0 THEN O
  ELSE LET O1 == [O EXCEPT !.count[s] = 1] IN
    IF O1.tag[s] # DEOPTIMIZED_SELECTOR THEN O1
    ELSE IF Len(O1.pool) = 0 THEN [O1 EXCEPT !.queue = Append(@, s)]
    ELSE [O1 EXCEPT !.tag[s] = O1.pool[Len(O1.pool)],
                    !.pool = SubSeq(@, 1, Len(@) - 1),
                    !.opt = @ \cup {s}]

\* (mutant) with no bit left the reference is counted but the selector is
\* not queued
optimizeSelector_NoQueue(O, s) ==
  IF O.tag[s] = 0 THEN O
  ELSE LET O1 == [O EXCEPT !.count[s] = @ + 1] IN
    IF O1.tag[s] # DEOPTIMIZED_SELECTOR THEN O1
    ELSE IF Len(O1.pool) = 0 THEN O1
    ELSE [O1 EXCEPT !.tag[s] = O1.pool[Len(O1.pool)],
                    !.pool = SubSeq(@, 1, Len(@) - 1),
                    !.opt = @ \cup {s}]

\* (mutant) the pool is read from its other end
optimizeSelector_TakesBottom(O, s) ==
  IF O.tag[s] = 0 THEN O
  ELSE LET O1 == [O EXCEPT !.count[s] = @ + 1] IN
    IF O1.tag[s] # DEOPTIMIZED_SELECTOR THEN O1
    ELSE IF Len(O1.pool) = 0 THEN [O1 EXCEPT !.queue = Append(@, s)]
    ELSE [O1 EXCEPT !.tag[s] = O1.pool[1],
                    !.pool = SubSeq(@, 2, Len(@)),
                    !.opt = @ \cup {s}]

optimizeSelector(O, s) ==
  IF O.tag[s] = 0 THEN O
  ELSE LET O1 == [O EXCEPT !.count[s] = @ + 1] IN
    IF O1.tag[s] # DEOPTIMIZED_SELECTOR THEN O1
    ELSE IF Len(O1.pool) = 0 THEN [O1 EXCEPT !.queue = Append(@, s)]
    ELSE [O1 EXCEPT !.tag[s] = O1.pool[Len(O1.pool)],
                    !.pool = SubSeq(@, 1, Len(@) - 1),
                    !.opt = @ \cup {s}]

\* (mutant) the bit of a de-optimized selector is not pushed back
deoptimizeSelector_NoPush(O, s) ==
  IF O.tag[s] = 0 THEN O
  ELSE IF s \notin O.opt THEN O
  ELSE IF ~(O.count[s] > 0) THEN [O EXCEPT !.err = TRUE]
  ELSE IF O.count[s] - 1 = 0 THEN
    LET O1 == [O EXCEPT !.tag[s] = DEOPTIMIZED_SELECTOR,
                        !.count[s] = 0,
                        !.opt = @ \ {s}]
    IN IF Len(O1.queue) # 0
       THEN optimizeSelector([O1 EXCEPT !.queue = SubSeq(@, 1, Len(@) - 1)],
                             O1.queue[Len(O1.queue)])
       ELSE O1
  ELSE [O EXCEPT !.count[s] = @ - 1]

deoptimizeSelector(O, s) ==
  IF O.tag[s] = 0 THEN O
  ELSE IF s \notin O.opt THEN O
  ELSE IF ~(O.count[s] > 0) THEN [O EXCEPT !.err = TRUE]
  ELSE IF O.count[s] - 1 = 0 THEN
    LET O1 == [O EXCEPT !.pool = Append(@, O.tag[s]),
                        !.tag[s] = DEOPTIMIZED_SELECTOR,
                        !.count[s] = 0,
                        !.opt = @ \ {s}]
    IN IF Len(O1.queue) # 0
       THEN optimizeSelector([O1 EXCEPT !.queue = SubSeq(@, 1, Len(@) - 1)],
                             O1.queue[Len(O1.queue)])
       ELSE O1
  ELSE [O EXCEPT !.count[s] = @ - 1]

\* selectors.forEach(optimizeSelector)
RECURSIVE optimizeAll(_, _)
optimizeAll(O, sels) ==
  IF sels = <<>> THEN O ELSE optimizeAll(optimizeSelector(O, Head(sels)), Tail(sels))

\* selectors.forEach(deoptimizeSelector); a throw ends the loop
RECURSIVE deoptimizeAll(_, _)
deoptimizeAll(O, sels) ==
  IF sels = <<>> \/ O.err THEN O
  ELSE deoptimizeAll(deoptimizeSelector(O, Head(sels)), Tail(sels))

getObservedBitsForSelector(s) ==
  IF observedBits[s] # 0 THEN observedBits[s] ELSE DEOPTIMIZED_SELECTOR

RECURSIVE ReduceBits(_, _)
ReduceBits(bits, sels) ==
  IF sels = <<>> THEN bits
  ELSE ReduceBits(BitOr(bits, getObservedBitsForSelector(Head(sels))), Tail(sels))

\* getObservedBits(this.props.selector)
getObservedBits(multi, sels) ==
  IF multi THEN ReduceBits(0, sels) ELSE getObservedBitsForSelector(sels[1])

\* The callback of optimizedSelectors.forEach((bits, selector) => ...) receives
\* (value, key): for a Set both are the selector function itself, so `bits` is a
\* function and `changedBits |= bits` ORs in ToInt32(function), which is 0.
ToInt32OfFunction(s) == 0

RECURSIVE ChangedBitsOver(_, _, _, _)
ChangedBitsOver(acc, todo, stale, current) ==
  IF todo = {} THEN acc
  ELSE LET selector == CHOOSE t \in todo : TRUE
           bits == ToInt32OfFunction(selector)
       IN ChangedBitsOver(
            IF StrictNotEqual(Apply(selector, stale), Apply(selector, current))
            THEN BitOr(acc, bits) ELSE acc,
            todo \ {selector}, stale, current)

\* React.createContext(baseState, (stale, current) => changedBits)
calculateChangedBits(stale, current) ==
  ChangedBitsOver(DEOPTIMIZED_SELECTOR, optimizedSelectors, stale, current)

-----------------------------------------------------------------------------
(* Rendering *)

\* selector.map(fn => fn(state)), or [selector(state)] for a single selector
Observe(sels, state) == [i \in 1..Len(sels) |-> Apply(sels[i], state)]

\* state.some((observedState, i) => observedState !== currentState[i])
SomeDiffers(old, new) ==
  \E i \in 1..Len(new) : i > Len(old) \/ StrictNotEqual(new[i], old[i])

\* currentState[i] for every i: undefined when currentState is no array
ElemsOf(x) == IF IsArray(x) THEN x.elems ELSE <<>>

\* static getDerivedStateFromProps(props, state): React calls it when the
\* Consumer mounts and when its parent re-renders, not on a context update
\* (mutant: the version id stays)
getDerivedStateFromProps_KeepsId(id) == id

getDerivedStateFromProps(id) == id + 1

\* state.id of a Consumer after it mounted: `state = { id: 0 }`, then
\* getDerivedStateFromProps; the later iterations have no version id
MountId == IF variant = "select" THEN getDerivedStateFromProps(0) ELSE 0

\* ConsumerMemoization / ConsumerIndirection .shouldComponentUpdate.  old and
\* new are the observed values, one per selector; `multi` says that
\* props.selector is an array, so that props.state is the array of the
\* observed values; oldId and newId are this.props.id and the id of the new
\* props.
shouldComponentUpdate(multi, old, new, oldId, newId) ==
  CASE variant = "select" ->
         \/ newId # oldId
         \/ \E i \in 1..Len(new) : ~shallowEqual(new[i], old[i])
    [] variant \in {"middle", "initial"} ->
         IF multi THEN SomeDiffers(old, new) ELSE StrictNotEqual(new[1], old[1])
    [] variant = "optimized" ->
         IF multi THEN SomeDiffers(old, new)
         ELSE IF IsArray(new[1]) THEN SomeDiffers(ElemsOf(old[1]), new[1].elems)
         ELSE StrictNotEqual(new[1], old[1])
    [] OTHER -> StrictNotEqual(new[1], old[1])

\* React hands the new context value to the State.Consumer of every Consumer
\* below Provider p whose observed bits meet the changed bits.
Notified(c, p, cb) ==
  /\ consumer[c].mounted
  /\ consumer[c].under = p
  /\ BitAnd(cb, consumer[c].bits) # 0

\* One render pass over the Consumers.  `roots` are the Consumers whose parent
\* component re-rendered, `ctx` those the changed context value is handed to,
\* `value` the context value.  A Consumer rendered inside the callback of
\* another one (within) is re-rendered by its parent when that callback is
\* invoked again: ParentHit.  Its own callback is invoked when
\* shouldComponentUpdate says so: Invoked.
RECURSIVE ParentHit(_, _, _, _), Invoked(_, _, _, _)
ParentHit(d, roots, ctx, value) ==
  \/ d \in roots
  \/ /\ consumer[d].within # Null
     /\ Invoked(consumer[d].within, roots, ctx, value)

\* state.id after the pass
NewId(d, roots, ctx, value) ==
  IF variant = "select" /\ ParentHit(d, roots, ctx, value)
  THEN getDerivedStateFromProps(consumer[d].id)
  ELSE consumer[d].id

Invoked(d, roots, ctx, value) ==
  /\ d \in ctx \/ ParentHit(d, roots, ctx, value)
  /\ shouldComponentUpdate(consumer[d].multi, consumer[d].shown,
                           Observe(consumer[d].sels, value),
                           consumer[d].id, NewId(d, roots, ctx, value))

\* the Consumer after the pass: the props of its memoizing child are the new
\* observed values and the new id whether or not the callback was invoked.
\* When its parent re-rendered it, CopyOnWriteConsumer.render() ran and
\* computed unstable_observedBits = getObservedBits(this.props.selector) anew;
\* a changed context value alone runs only the State.Consumer callback.
AfterRender(d, roots, ctx, value) ==
  IF d \in ctx \/ ParentHit(d, roots, ctx, value)
  THEN [consumer[d] EXCEPT !.shown = Observe(consumer[d].sels, value),
                           !.id = NewId(d, roots, ctx, value),
                           !.bits = IF variant = "optimized" /\ ParentHit(d, roots, ctx, value)
                                    THEN getObservedBits(consumer[d].multi, consumer[d].sels)
                                    ELSE @]
  ELSE consumer[d]

\* React is not inside an event handler: no setState call waits
Idle == \A p \in Providers : provider[p].pending = <<>>

\* React processes an update queue: each queued partial state is merged, in
\* the order of the calls, into the state the one before it gave
RECURSIVE processUpdateQueue(_, _, _)
processUpdateQueue(prev, queue, fresh) ==
  IF queue = <<>> THEN prev
  ELSE processUpdateQueue(setState(prev, Head(queue), fresh), Tail(queue), fresh)

\* Provider p processes the queued setState calls and renders: the new
\* this.state is the context value, calculateChangedBits compares it with the
\* one before, and the Consumers whose observed bits it meets are rendered.
ProviderUpdate(p, queue, fresh) ==
  LET value == processUpdateQueue(provider[p].state, queue, fresh)
      cb == IF variant = "optimized"
            THEN calculateChangedBits(provider[p].state, value)
            ELSE MAX_SIGNED_31_BIT_INT
      ctx == {c \in Consumers : Notified(c, p, cb)}
  IN /\ provider' = [provider EXCEPT ![p].state = value, ![p].pending = <<>>]
     /\ changedBits' = cb
     /\ consumer' = [c \in Consumers |-> AfterRender(c, {}, ctx, value)]
     /\ \A c \in Consumers : consumer'[c].id <= MaxId
     /\ rendered' = {c \in Consumers : Invoked(c, {}, ctx, value)}

\* updateState = () => this.setState(<the closure's state>).  `seen` is the
\* state the listener reads when it is called.  Called while React batches
\* (inside an event handler), setState only queues its argument and the
\* Provider renders when the handler returns; called outside, React processes
\* the update before setState returns.
updateState(p, seen, batched, fresh) ==
  IF batched
  THEN /\ Len(provider[p].pending) < MaxBatch
       /\ provider' = [provider EXCEPT ![p].pending = Append(@, seen)]
       /\ rendered' = {}
       /\ UNCHANGED <<consumer, changedBits>>
  ELSE /\ Idle
       /\ ProviderUpdate(p, <<seen>>, fresh)

\* The event handler returns: React processes the setState calls the handler
\* made on Provider p, all in one render.
HandlerReturns(p) ==
  /\ provider[p].pending # <<>>
  /\ ProviderUpdate(p, provider[p].pending, FreshRef(HeldRefs(p), 1))
  /\ last' = Quiet("handlerReturns", TRUE, p)
  /\ UNCHANGED <<variant, middlewares, currentState, providerListener, optVars, fillLevel>>

\* The step made Provider last'.who render a new state: a mutate outside an
\* event handler did, or the return of the handler whose mutates waited.
Publishes ==
  \/ last'.op = "mutate" /\ last'.calls = 1 /\ provider'[last'.who].pending = <<>>
  \/ last'.op = "handlerReturns"

\* What the listener of the step handed to setState is the new snapshot:
\* React holds it as the last entry of Provider p's queue, or has merged it
\* into the state of p.
ListenerRead(p) ==
  IF provider'[p].pending # <<>>
  THEN provider'[p].pending[Len(provider'[p].pending)] = currentState'
  ELSE \A f \in Fields :
         currentState'.val[f] # -1 => provider'[p].state.val[f] = currentState'.val[f]

-----------------------------------------------------------------------------
(* mutate / update *)

\* (mutant) the invariant is missing: the recipe runs, the snapshot is replaced
\* and the call of the null listener throws
MutateRejected_NoGuard(r) ==
  /\ providerListener = Null
  /\ r.op # "del"
  /\ LET nextState == produce(currentState, r, FreshRef(LiveRefs, 0))
     IN /\ currentState' = nextState
        /\ last' = Did("mutate", FALSE, 0, r.op, nextState.ref, 0, -1)
  /\ rendered' = {}
  /\ UNCHANGED <<variant, middlewares, providerListener, provider, consumer, optVars, fillLevel,
                 changedBits>>

\* invariant(providerListener !== null, ...) throws
MutateRejected(r) ==
  /\ providerListener = Null
  /\ last' = Did("mutate", FALSE, 0, r.op, -1, 0, -1)
  /\ rendered' = {}
  /\ UNCHANGED <<variant, middlewares, storeVars, consumer, optVars, fillLevel, changedBits>>

\* (mutant) a recipe that throws has assigned its field before: the draft
\* becomes the snapshot and is broadcast, then the exception goes on
MutateAccepted_AppliesBeforeThrow(r, batched) ==
  /\ providerListener # Null
  /\ ~batched => Idle
  /\ r.op = "del" => currentState.val[r.f] # -1
  /\ r.op = "setIn" => IsSub(currentState.val[r.f])
  /\ LET fresh1 == FreshRef(LiveRefs, 0)
         fresh2 == FreshRef(HeldRefs(providerListener), 1)
         nextState == IF r.op = "throw"
                      THEN Obj(fresh1, [currentState.val EXCEPT ![r.f] = 1 - r.v])
                      ELSE produce(currentState, r, fresh1)
     IN IF StrictNotEqual(nextState, currentState)
        THEN /\ currentState' = nextState
             /\ updateState(providerListener, currentState', batched, fresh2)
             /\ last' = Did("mutate", r.op # "throw", providerListener, r.op,
                            nextState.ref, 1, currentState'.ref)
             /\ UNCHANGED providerListener
        ELSE /\ last' = Did("mutate", TRUE, 0, r.op, nextState.ref, 0, -1)
             /\ rendered' = {}
             /\ UNCHANGED <<storeVars, consumer, changedBits>>
  /\ UNCHANGED <<variant, middlewares, optVars, fillLevel>>

\* (mutant) the listener is invoked before currentState is replaced
MutateAccepted_ListenerFirst(r, batched) ==
  /\ providerListener # Null
  /\ ~batched => Idle
  /\ r.op = "del" => currentState.val[r.f] # -1
  /\ LET fresh1 == FreshRef(LiveRefs, 0)
         fresh2 == FreshRef(HeldRefs(providerListener), 1)
         nextState == produce(currentState, r, fresh1)
     IN IF r.op = "throw"
        THEN /\ last' = Did("mutate", FALSE, 0, r.op, -1, 0, -1)
             /\ rendered' = {}
             /\ UNCHANGED <<storeVars, consumer, changedBits>>
        ELSE IF StrictNotEqual(nextState, currentState)
        THEN /\ updateState(providerListener, currentState, batched, fresh2)
             /\ currentState' = nextState
             /\ last' = Did("mutate", TRUE, providerListener, r.op, nextState.ref,
                            1, currentState.ref)
             /\ UNCHANGED providerListener
        ELSE /\ last' = Did("mutate", TRUE, 0, r.op, nextState.ref, 0, -1)
             /\ rendered' = {}
             /\ UNCHANGED <<storeVars, consumer, changedBits>>
  /\ UNCHANGED <<variant, middlewares, optVars, fillLevel>>

\* mutate(fn) / update(fn) with a Provider registered
MutateAccepted(r, batched) ==
  /\ providerListener # Null
  /\ ~batched => Idle
  /\ r.op = "del" => currentState.val[r.f] # -1
  /\ r.op = "setIn" => IsSub(currentState.val[r.f])
  /\ LET fresh1 == FreshRef(LiveRefs, 0)
         fresh2 == FreshRef(HeldRefs(providerListener), 1)
         nextState == produce(currentState, r, fresh1)
     IN IF variant = "middle" /\ ~ReachesProduce
        THEN /\ last' = Did("mutate", TRUE, 0, r.op, -1, 0, -1)
             /\ rendered' = {}
             /\ UNCHANGED <<storeVars, consumer, changedBits>>
        ELSE IF r.op = "throw"
        THEN /\ last' = Did("mutate", FALSE, 0, r.op, -1, 0, -1)
             /\ rendered' = {}
             /\ UNCHANGED <<storeVars, consumer, changedBits>>
        ELSE IF StrictNotEqual(nextState, currentState)
        THEN /\ currentState' = nextState
             /\ updateState(providerListener, currentState', batched, fresh2)
             /\ last' = Did("mutate", TRUE, providerListener, r.op, nextState.ref,
                            1, currentState'.ref)
             /\ UNCHANGED providerListener
        ELSE /\ last' = Did("mutate", TRUE, 0, r.op, nextState.ref, 0, -1)
             /\ rendered' = {}
             /\ UNCHANGED <<storeVars, consumer, changedBits>>
  /\ UNCHANGED <<variant, middlewares, optVars, fillLevel>>

\* mutate is called outside or inside an event handler
mutate(r) == MutateRejected(r) \/ \E batched \in BOOLEAN : MutateAccepted(r, batched)

\* (mutant) the recipe is handed the state the store was created with
SecondArg_BaseState == baseState

\* the second argument of the recipe: produce(currentState, draft =>
\* fn(draft, currentState))
SecondArg == currentState

\* mutate((draft, state) => { draft.f = state.f + 1 }), for a field holding a
\* number.  Only the iteration with the `select` prop hands the snapshot to
\* the recipe; in the others `state` is undefined and reading state.f throws.
MutateWithState(f) ==
  /\ providerListener # Null =>
       currentState.val[f] >= 0 /\ currentState.val[f] < MaxValue
  /\ mutate(IF variant = "select" /\ providerListener # Null
            THEN [op |-> "inc", f |-> f, v |-> SecondArg.val[f]]
            ELSE [op |-> IF variant = "select" THEN "inc" ELSE "throw", f |-> f, v |-> 0])

\* the iterations that have createMutator
HasCreateMutator == variant \in {"middle", "optimized", "update"}

\* what fn receives after the draft when the mutator is called with x:
\* (...args) => update(draft => { fn(draft, ...args) }) forwards x,
\* () => update(fn) does not
Forwarded(x) == IF variant = "update" THEN Undefined ELSE x

\* createMutator((draft, x) => { draft.a = x })(x)
CallMutator(x) ==
  /\ HasCreateMutator
  /\ mutate([op |-> IF x = 1 THEN "call1" ELSE "call0", f |-> "a", v |-> Forwarded(x)])

-----------------------------------------------------------------------------
(* CopyOnWriteStoreProvider *)

InitialStates(fresh) == {NoInitialState, Obj(fresh, [f \in Fields |-> IF f = "a" THEN 1 ELSE 0])}

TakesInitialState == variant \in {"select", "initial"}

\* the class property `state = ...` evaluated when the instance is created
ConstructedState(init) ==
  IF TakesInitialState /\ ~IsPrim(init) THEN init
  ELSE IF variant = "select" THEN currentState
  ELSE baseState

\* what `last` records of props.initialState: given or not
PropKind(init) == IF IsPrim(init) THEN "" ELSE "initialState"

\* A Provider instance is created and rendered in a root of its own, then
\* componentDidMount runs.  When its invariant throws no error boundary
\* catches the error: React unmounts the root before the render call returns,
\* which runs componentWillUnmount of the instance that threw.
componentDidMount(p, init) ==
  /\ Idle
  /\ provider[p].status = "unmounted"
  /\ init \in InitialStates(FreshRef(LiveRefs, 0))
  /\ ~IsPrim(init) => TakesInitialState
  /\ IF providerListener # Null
     THEN \* invariant(providerListener === null, ...) throws, and
          \* componentWillUnmount of the instance runs
          /\ providerListener' = Null
          /\ currentState' = IF variant = "select" THEN baseState ELSE currentState
          /\ provider' = [provider EXCEPT ![p] = NoProvider]
          /\ last' = Did("providerMount", FALSE, p, PropKind(init), -1, 0, -1)
     ELSE /\ provider' = [provider EXCEPT ![p] =
                            [status |-> "mounted", state |-> ConstructedState(init),
                             pending |-> <<>>]]
          /\ providerListener' = p
          /\ currentState' = IF ~IsPrim(init) THEN init ELSE currentState
          /\ last' = Did("providerMount", TRUE, p, PropKind(init), -1, 0, -1)
  /\ rendered' = {}
  /\ UNCHANGED <<variant, middlewares, consumer, optVars, fillLevel, changedBits>>

\* (mutant) the Provider takes over a new initialState prop
ProviderRerender_AdoptsProp(p, init) ==
  /\ Idle
  /\ provider[p].status = "mounted"
  /\ init \in InitialStates(FreshRef(LiveRefs, 0))
  /\ ~IsPrim(init) => TakesInitialState
  /\ \A d \in Consumers : consumer[d].id < MaxId
  /\ LET roots == {c \in Consumers : /\ consumer[c].mounted
                                      /\ consumer[c].under = p
                                      /\ consumer[c].within = Null}
         value == IF IsPrim(init) THEN provider[p].state ELSE init
     IN /\ consumer' = [d \in Consumers |-> AfterRender(d, roots, {}, value)]
        /\ rendered' = {d \in Consumers : Invoked(d, roots, {}, value)}
        /\ provider' = [provider EXCEPT ![p].state = value]
        /\ currentState' = IF IsPrim(init) THEN currentState ELSE init
  /\ last' = Did("providerUpdate", TRUE, p, PropKind(init), -1, 0, -1)
  /\ UNCHANGED <<variant, middlewares, providerListener, optVars, fillLevel, changedBits>>

\* The parent of mounted Provider p re-renders it, with an initialState prop
\* or none: the instance and its state stay, componentDidMount does not run
\* again, render() publishes this.state, and the Consumers the Provider's
\* children render are re-rendered by their parent.
ProviderRerender(p, init) ==
  /\ Idle
  /\ provider[p].status = "mounted"
  /\ init \in InitialStates(FreshRef(LiveRefs, 0))
  /\ ~IsPrim(init) => TakesInitialState
  /\ \A d \in Consumers : consumer[d].id < MaxId
  /\ LET roots == {c \in Consumers : /\ consumer[c].mounted
                                      /\ consumer[c].under = p
                                      /\ consumer[c].within = Null}
         value == provider[p].state
     IN /\ consumer' = [d \in Consumers |-> AfterRender(d, roots, {}, value)]
        /\ rendered' = {d \in Consumers : Invoked(d, roots, {}, value)}
  /\ last' = Did("providerUpdate", TRUE, p, PropKind(init), -1, 0, -1)
  /\ UNCHANGED <<variant, middlewares, storeVars, optVars, fillLevel, changedBits>>

\* (mutant) the snapshot survives the unmount
componentWillUnmount_KeepsSnapshot(p) ==
  /\ Idle
  /\ provider[p].status # "unmounted"
  /\ \A c \in Consumers : consumer[c].mounted => consumer[c].under # p
  /\ providerListener' = Null
  /\ currentState' = currentState
  /\ provider' = [provider EXCEPT ![p] = NoProvider]
  /\ last' = Quiet("providerUnmount", TRUE, p)
  /\ rendered' = {}
  /\ UNCHANGED <<variant, middlewares, consumer, optVars, fillLevel, changedBits>>

\* React unmounts a mounted Provider instance.  Its Consumers have been
\* unmounted before.
componentWillUnmount(p) ==
  /\ Idle
  /\ provider[p].status # "unmounted"
  /\ \A c \in Consumers : consumer[c].mounted => consumer[c].under # p
  /\ providerListener' = Null
  /\ currentState' = IF variant = "select" THEN baseState ELSE currentState
  /\ provider' = [provider EXCEPT ![p] = NoProvider]
  /\ last' = Quiet("providerUnmount", TRUE, p)
  /\ rendered' = {}
  /\ UNCHANGED <<variant, middlewares, consumer, optVars, fillLevel, changedBits>>

-----------------------------------------------------------------------------
(* CopyOnWriteConsumer *)

WithinCaps(O) ==
  /\ Len(O.queue) <= MaxQueue
  /\ \A s \in Tagged : O.count[s] <= MaxCount

SetOptimizer(O) ==
  /\ observedBits' = O.tag
  /\ selectorBits' = O.pool
  /\ optimizationQueue' = O.queue
  /\ selectorReferenceCount' = O.count
  /\ optimizedSelectors' = O.opt

\* the value a Consumer reads from the context: its Provider's state, or the
\* default value of createContext(baseState) when it has no Provider
ContextValue(p) == IF p = Null THEN baseState ELSE provider[p].state

\* A Consumer is rendered below Provider p (or below none) and mounts.
ConsumerMount(c, p, multi, sels) ==
  /\ Idle
  /\ ~consumer[c].mounted
  /\ p # Null => provider[p].status = "mounted"
  /\ variant # "optimized" => \A i \in 1..Len(sels) : sels[i] \in Untagged
  /\ variant = "select" => multi
  /\ variant = "update" => ~multi
  /\ LET O == IF variant = "optimized" THEN optimizeAll(Optimizer, sels) ELSE Optimizer
     IN /\ WithinCaps(O)
        /\ SetOptimizer(O)
  /\ consumer' = [consumer EXCEPT ![c] =
       [mounted |-> TRUE, under |-> p, multi |-> multi, sels |-> sels,
        shown |-> Observe(sels, ContextValue(p)),
        bits |-> IF variant = "optimized" THEN getObservedBits(multi, sels)
                 ELSE MAX_SIGNED_31_BIT_INT,
        within |-> Null, id |-> MountId, referenced |-> sels]]
  /\ rendered' = {c}
  /\ last' = Quiet("consumerMount", TRUE, c)
  /\ UNCHANGED <<variant, middlewares, storeVars, fillLevel, changedBits>>

ConsumerUnmount(c) ==
  /\ Idle
  /\ consumer[c].mounted
  /\ \A d \in Consumers : consumer[d].within # c
  /\ LET O == IF variant = "optimized" THEN deoptimizeAll(Optimizer, consumer[c].sels)
              ELSE Optimizer
     IN /\ WithinCaps(O)
        /\ SetOptimizer(O)
        /\ last' = Quiet("consumerUnmount", ~O.err, c)
  /\ consumer' = [consumer EXCEPT ![c] = NoConsumer]
  /\ rendered' = {}
  /\ UNCHANGED <<variant, middlewares, storeVars, fillLevel, changedBits>>

\* The selector props of nested Consumers: plain functions, and in the
\* iteration that optimizes selectors the ones createSelector made
NestProps ==
  {<<m, <<s>> >> : m \in BOOLEAN, s \in {-1, -2}}
  \cup {<<FALSE, <<s>> >> : s \in Active}

\* the selectors of Consumers c, c - 1, ..., 1 of the tree, in this order
RECURSIVE InnerFirst(_, _)
InnerFirst(selsOf, c) ==
  IF c = 0 THEN <<>> ELSE selsOf[c] \o InnerFirst(selsOf, c - 1)

\* the selectors of Consumers c, c + 1, ..., NumConsumers of the tree
RECURSIVE OuterFirst(_, _)
OuterFirst(selsOf, c) ==
  IF c > NumConsumers THEN <<>> ELSE selsOf[c] \o OuterFirst(selsOf, c + 1)

\* A tree is rendered below Provider 1 in which the callback of Consumer c
\* returns Consumer c + 1: they mount in one commit and every callback runs.
\* All of them render before any componentDidMount runs, and React runs
\* componentDidMount of a child before that of its parent.
TreeMount(props) ==
  /\ Idle
  /\ \A c \in Consumers : ~consumer[c].mounted
  /\ provider[1].status = "mounted"
  /\ variant = "select" => \A c \in Consumers : props[c][1]
  /\ variant = "update" => \A c \in Consumers : ~props[c][1]
  /\ variant # "optimized" =>
       \A c \in Consumers : \A i \in 1..Len(props[c][2]) : props[c][2][i] \in Untagged
  /\ LET O == IF variant = "optimized"
              THEN optimizeAll(Optimizer,
                               InnerFirst([c \in Consumers |-> props[c][2]], NumConsumers))
              ELSE Optimizer
     IN /\ WithinCaps(O)
        /\ SetOptimizer(O)
  /\ consumer' = [c \in Consumers |->
       [mounted |-> TRUE, under |-> 1, multi |-> props[c][1], sels |-> props[c][2],
        shown |-> Observe(props[c][2], ContextValue(1)),
        bits |-> IF variant = "optimized" THEN getObservedBits(props[c][1], props[c][2])
                 ELSE MAX_SIGNED_31_BIT_INT,
        within |-> IF c = 1 THEN Null ELSE c - 1, id |-> MountId,
        referenced |-> props[c][2]]]
  /\ rendered' = Consumers
  /\ last' = Quiet("treeMount", TRUE, 1)
  /\ UNCHANGED <<variant, middlewares, storeVars, fillLevel, changedBits>>

\* The tree is removed: React runs componentWillUnmount of a parent before
\* that of its children.
TreeUnmount ==
  /\ Idle
  /\ \A c \in Consumers : consumer[c].mounted
  /\ \E c \in Consumers : consumer[c].within # Null
  /\ LET O == IF variant = "optimized"
              THEN deoptimizeAll(Optimizer,
                                 OuterFirst([c \in Consumers |-> consumer[c].sels], 1))
              ELSE Optimizer
     IN /\ WithinCaps(O)
        /\ SetOptimizer(O)
        /\ last' = Quiet("treeUnmount", ~O.err, 1)
  /\ consumer' = [c \in Consumers |-> NoConsumer]
  /\ rendered' = {}
  /\ UNCHANGED <<variant, middlewares, storeVars, fillLevel, changedBits>>

\* The component that renders Consumer c re-renders, the context value being
\* what it was: CopyOnWriteConsumer c renders again with new props.
ParentRender(c) ==
  /\ Idle
  /\ consumer[c].mounted
  /\ consumer[c].within = Null
  /\ \A d \in Consumers : consumer[d].id < MaxId
  /\ LET value == ContextValue(consumer[c].under)
     IN /\ consumer' = [d \in Consumers |-> AfterRender(d, {c}, {}, value)]
        /\ rendered' = {d \in Consumers : Invoked(d, {c}, {}, value)}
  /\ last' = Quiet("parentRender", TRUE, c)
  /\ UNCHANGED <<variant, middlewares, storeVars, optVars, fillLevel, changedBits>>

\* ConusmerIndirection.shouldComponentUpdate when the selector prop changed
\* between a function and an array of functions: props.state is the bare
\* observed value for a function and the array of observed values for an
\* array.  With an array as the new state the old state is indexed like an
\* array (undefined for every index unless it is an array itself); with a
\* bare new state the two are compared by identity, and an array made by
\* selectors.map is identical to nothing else.
StateShapeChanged(multi, old, new) ==
  IF multi THEN SomeDiffers(ElemsOf(old[1]), new)
  ELSE IF IsArray(new[1]) THEN SomeDiffers(old, new[1].elems)
  ELSE TRUE

\* The parent of mounted Consumer c re-renders it with another selector prop.
\* Nothing but componentDidMount and componentWillUnmount calls the selector
\* optimisation: render() computes the observed bits of the new prop and the
\* consumer callback the observed state.
ConsumerReceiveProps(c, multi, sels) ==
  /\ Idle
  /\ consumer[c].mounted
  /\ consumer[c].within = Null
  /\ variant = "optimized"
  /\ <<multi, sels>> # <<consumer[c].multi, consumer[c].sels>>
  /\ LET observed == Observe(sels, ContextValue(consumer[c].under))
     IN /\ consumer' = [consumer EXCEPT ![c].multi = multi, ![c].sels = sels,
                                        ![c].shown = observed,
                                        ![c].bits = getObservedBits(multi, sels)]
        /\ rendered' = IF (IF multi = consumer[c].multi
                           THEN shouldComponentUpdate(multi, consumer[c].shown, observed,
                                                      consumer[c].id, consumer[c].id)
                           ELSE StateShapeChanged(multi, consumer[c].shown, observed))
                       THEN {c} ELSE {}
  /\ last' = Quiet("consumerProps", TRUE, c)
  /\ UNCHANGED <<variant, middlewares, storeVars, optVars, fillLevel, changedBits>>

\* A tree of k Consumers is rendered in one commit, Consumer i using the tagged
\* selector i alone: their componentDidMount run in order.  It is the first
\* thing rendered: no selector has been referenced before.
Upto(k) == [i \in 1..k |-> i]

Pristine ==
  /\ selectorBits = InitialSelectorBits
  /\ optimizationQueue = <<>>
  /\ \A s \in Selectors : selectorReferenceCount[s] = 0

FillSizes == {NumFill - 2, NumFill - 1, NumFill}

FillerMount(k) ==
  /\ variant = "optimized"
  /\ fillLevel = 0
  /\ Pristine
  /\ LET O == optimizeAll(Optimizer, Upto(k))
     IN /\ WithinCaps(O)
        /\ SetOptimizer(O)
  /\ fillLevel' = k
  /\ rendered' = {}
  /\ last' = Quiet("fillerMount", TRUE, k)
  /\ UNCHANGED <<variant, middlewares, storeVars, consumer, changedBits>>

\* The tree is unmounted in one commit: componentWillUnmount runs in order.
FillerUnmount ==
  /\ variant = "optimized"
  /\ fillLevel > 0
  /\ LET O == deoptimizeAll(Optimizer, Upto(fillLevel))
     IN /\ WithinCaps(O)
        /\ SetOptimizer(O)
        /\ last' = Quiet("fillerUnmount", ~O.err, fillLevel)
  /\ fillLevel' = 0
  /\ rendered' = {}
  /\ UNCHANGED <<variant, middlewares, storeVars, consumer, changedBits>>

\* The Consumer of the tree that uses the highest selector unmounts alone.
FillerUnmountOne ==
  /\ variant = "optimized"
  /\ fillLevel - 1 \in FillSizes
  /\ LET O == deoptimizeSelector(Optimizer, fillLevel)
     IN /\ SetOptimizer(O)
        /\ last' = Quiet("fillerUnmountOne", ~O.err, fillLevel)
  /\ fillLevel' = fillLevel - 1
  /\ rendered' = {}
  /\ UNCHANGED <<variant, middlewares, storeVars, consumer, changedBits>>

-----------------------------------------------------------------------------
(* Specifications *)

InitCommon ==
  /\ middlewares = <<>>
  /\ currentState = baseState
  /\ providerListener = Null
  /\ provider = [p \in Providers |-> NoProvider]
  /\ consumer = [c \in Consumers |-> NoConsumer]
  /\ rendered = {}
  /\ last = NoOp
  /\ observedBits = [s \in Selectors |-> IF s \in Tagged THEN createSelector(s) ELSE 0]
  /\ selectorBits = InitialSelectorBits
  /\ optimizationQueue = <<>>
  /\ selectorReferenceCount = [s \in Selectors |-> 0]
  /\ optimizedSelectors = {}
  /\ fillLevel = 0
  /\ changedBits = 0

\* The store of any iteration and its Providers
Init == variant \in Variants /\ InitCommon

Next ==
  \/ \E r \in Recipes : mutate(r)
  \/ \E p \in Providers : HandlerReturns(p)
  \/ \E p \in Providers : \E init \in InitialStates(FreshRef(LiveRefs, 0)) :
       componentDidMount(p, init)
  \/ \E p \in Providers : componentWillUnmount(p)

Spec == Init /\ [][Next]_vars

\* a createSelector-tagged selector reading field a
TaggedA == CHOOSE s \in Active : FieldOf(s) = "a"

\* The selector props of the Consumers of the rendering specification
RenderProps ==
  {<<FALSE, <<identityFn>> >>, <<FALSE, <<-1>> >>, <<FALSE, <<TaggedA>> >>,
   <<TRUE, <<identityFn>> >>, <<TRUE, <<-1>> >>, <<TRUE, <<-1, -2>> >>}

\* One Provider of any iteration, the Consumers below it, and mutate called
\* outside event handlers
NextRender ==
  \/ \E r \in RecipesWithDelete : MutateRejected(r) \/ MutateAccepted(r, FALSE)
  \/ \E init \in InitialStates(FreshRef(LiveRefs, 0)) : componentDidMount(1, init)
  \/ componentWillUnmount(1)
  \/ \E c \in Consumers : \E pr \in RenderProps : ConsumerMount(c, 1, pr[1], pr[2])
  \/ \E c \in Consumers : ConsumerUnmount(c)

SpecRender == Init /\ [][NextRender]_vars

\* The iteration with the `select` prop: one Provider, the Consumers below
\* it, and mutate called inside event handlers and outside; outside also
\* with recipes that give field a an object
InitSelect == variant = "select" /\ InitCommon

NextSelect ==
  \/ \E r \in RecipesWithDelete : mutate(r)
  \/ \E r \in ObjectRecipes : MutateRejected(r) \/ MutateAccepted(r, FALSE)
  \/ HandlerReturns(1)
  \/ \E init \in InitialStates(FreshRef(LiveRefs, 0)) : componentDidMount(1, init)
  \/ componentWillUnmount(1)
  \/ \E c \in Consumers : \E pr \in RenderProps : ConsumerMount(c, 1, pr[1], pr[2])
  \/ \E c \in Consumers : ConsumerUnmount(c)

SpecSelect == InitSelect /\ [][NextSelect]_vars

\* The selector props the Consumers of the optimisation specification use
OptProps ==
  {<<FALSE, <<s>> >> : s \in Active}
  \cup {<<TRUE, <<NumFill + 1, NumFill + 2>> >>, <<TRUE, <<NumFill + 1, -1>> >>}

\* The selector optimisation: Consumers with tagged selectors mount and unmount
InitOpt == variant = "optimized" /\ InitCommon

NextOpt ==
  \/ \E c \in Consumers : \E pr \in OptProps : ConsumerMount(c, Null, pr[1], pr[2])
  \/ \E c \in Consumers : ConsumerUnmount(c)
  \/ \E k \in FillSizes : FillerMount(k)
  \/ FillerUnmount
  \/ FillerUnmountOne

SpecOpt == InitOpt /\ [][NextOpt]_vars

\* The values a selector may return: numbers, an object, a new object with
\* the same fields, an object with another field value, an array, the array
\* without its last element, a new array with the same elements, an empty one.
SelectedObjects ==
  {Obj(2, [f \in Fields |-> 0]), Obj(4, [f \in Fields |-> 0]),
   Obj(6, [f \in Fields |-> IF f = "a" THEN 1 ELSE 0])}

SelectedArrays ==
  LET x == Obj(2, [f \in Fields |-> 0])
      y == Obj(6, [f \in Fields |-> IF f = "a" THEN 1 ELSE 0])
  IN {Arr(10, <<x, y>>), Arr(12, <<x>>), Arr(14, <<x, y>>), Arr(16, <<>>)}

SelectedValues == {PrimVal(0), PrimVal(1)} \cup SelectedObjects \cup SelectedArrays

\* what a Consumer observes: one value with a single selector, a value per
\* selector with an array of selectors
Observations ==
  {<<FALSE, <<v>> >> : v \in SelectedValues}
  \cup {<<TRUE, <<v>> >> : v \in SelectedValues}
  \cup {<<TRUE, <<v, w>> >> : v, w \in {PrimVal(0), PrimVal(1)} \cup SelectedObjects}

\* Consumer c mounts and its callback is invoked with the observed values.
ConsumerRender(c, multi, observed) ==
  /\ ~consumer[c].mounted
  /\ variant = "select" => multi
  /\ variant = "update" => ~multi
  /\ consumer' = [consumer EXCEPT ![c] =
       [mounted |-> TRUE, under |-> Null, multi |-> multi,
        sels |-> [i \in 1..Len(observed) |-> -i],
        shown |-> observed,
        bits |-> IF variant = "optimized" THEN DEOPTIMIZED_SELECTOR
                 ELSE MAX_SIGNED_31_BIT_INT,
        within |-> Null, id |-> MountId,
        referenced |-> [i \in 1..Len(observed) |-> -i]]]
  /\ rendered' = {c}
  /\ last' = Quiet("consumerMount", TRUE, c)
  /\ UNCHANGED <<variant, middlewares, storeVars, optVars, fillLevel, changedBits>>

\* The context value changes and Consumer c's selectors return `observed`.
ContextUpdate(c, observed) ==
  /\ consumer[c].mounted
  /\ Len(observed) = Len(consumer[c].shown)
  /\ consumer' = [consumer EXCEPT ![c].shown = observed]
  /\ rendered' = IF shouldComponentUpdate(consumer[c].multi, consumer[c].shown, observed,
                                          consumer[c].id, consumer[c].id)
                 THEN {c} ELSE {}
  /\ last' = Quiet("contextUpdate", TRUE, c)
  /\ UNCHANGED <<variant, middlewares, storeVars, optVars, fillLevel, changedBits>>

\* shouldComponentUpdate of one Consumer on any old and new observed values
NextCompare ==
  \/ \E o \in Observations : ConsumerRender(1, o[1], o[2])
  \/ \E o \in Observations : ContextUpdate(1, o[2])

SpecCompare == Init /\ [][NextCompare]_vars

\* The store and Provider 1, with recipes that assign objects to the fields
\* of the snapshot and assign inside them
NextShare ==
  \/ \E init \in InitialStates(FreshRef(LiveRefs, 0)) : componentDidMount(1, init)
  \/ componentWillUnmount(1)
  \/ \E r \in NestedRecipes : mutate(r)
  \/ \E p \in Providers : HandlerReturns(p)

SpecShare == Init /\ [][NextShare]_vars

\* createSelector is called on a function it has not been called on before
CreateSelector(s) ==
  /\ variant \in {"select", "optimized"}
  /\ observedBits[s] = 0
  /\ observedBits' = [observedBits EXCEPT ![s] = createSelector(s)]
  /\ rendered' = {}
  /\ last' = Quiet("createSelector", TRUE, s)
  /\ UNCHANGED <<variant, middlewares, storeVars, consumer, selectorBits, optimizationQueue,
                 selectorReferenceCount, optimizedSelectors, fillLevel, changedBits>>

\* Selectors are yet to be created: every function is a plain one at first.
InitCreate ==
  /\ variant \in {"select", "optimized"}
  /\ middlewares = <<>>
  /\ currentState = baseState
  /\ providerListener = Null
  /\ provider = [p \in Providers |-> NoProvider]
  /\ consumer = [c \in Consumers |-> NoConsumer]
  /\ rendered = {}
  /\ last = NoOp
  /\ observedBits = [s \in Selectors |-> 0]
  /\ selectorBits = InitialSelectorBits
  /\ optimizationQueue = <<>>
  /\ selectorReferenceCount = [s \in Selectors |-> 0]
  /\ optimizedSelectors = {}
  /\ fillLevel = 0
  /\ changedBits = 0

NextCreate ==
  \/ \E s \in Active : CreateSelector(s)
  \/ \E c \in Consumers : \E pr \in OptProps : ConsumerMount(c, Null, pr[1], pr[2])
  \/ \E c \in Consumers : ConsumerUnmount(c)

SpecCreate == InitCreate /\ [][NextCreate]_vars

\* Consumers with one tagged selector each, whose selector prop may change
\* while they are mounted
SingleProps == {<<FALSE, <<s>> >> : s \in Active}

\* the same selectors, each as an array of one selector
ArrayProps == {<<TRUE, <<s>> >> : s \in Active}

NextProps ==
  \/ \E c \in Consumers : \E pr \in SingleProps \cup ArrayProps :
       ConsumerMount(c, Null, pr[1], pr[2])
  \/ \E c \in Consumers : \E pr \in SingleProps \cup ArrayProps :
       ConsumerReceiveProps(c, pr[1], pr[2])
  \/ \E c \in Consumers : ConsumerUnmount(c)
  \/ \E k \in FillSizes : FillerMount(k)

SpecProps == InitOpt /\ [][NextProps]_vars

\* The iteration with middlewares, created with a list of up to
\* MaxMiddlewares middlewares: its Providers and update
MiddlewareLists ==
  UNION {[1..n -> MiddlewareKinds] : n \in 0..MaxMiddlewares}

InitMiddle ==
  /\ variant = "middle"
  /\ middlewares \in MiddlewareLists
  /\ currentState = baseState
  /\ providerListener = Null
  /\ provider = [p \in Providers |-> NoProvider]
  /\ consumer = [c \in Consumers |-> NoConsumer]
  /\ rendered = {}
  /\ last = NoOp
  /\ observedBits = [s \in Selectors |-> 0]
  /\ selectorBits = InitialSelectorBits
  /\ optimizationQueue = <<>>
  /\ selectorReferenceCount = [s \in Selectors |-> 0]
  /\ optimizedSelectors = {}
  /\ fillLevel = 0
  /\ changedBits = 0

NextMiddle ==
  \/ \E p \in Providers : \E init \in InitialStates(FreshRef(LiveRefs, 0)) :
       componentDidMount(p, init)
  \/ \E p \in Providers : componentWillUnmount(p)
  \/ \E r \in Recipes : mutate(r)
  \/ \E p \in Providers : HandlerReturns(p)

SpecMiddle == InitMiddle /\ [][NextMiddle]_vars

\* The store, Provider 1, a mutator made by createMutator and recipes that
\* read the state they are handed
NextMutator ==
  \/ \E init \in InitialStates(FreshRef(LiveRefs, 0)) : componentDidMount(1, init)
  \/ componentWillUnmount(1)
  \/ \E r \in Recipes : mutate(r)
  \/ \E p \in Providers : HandlerReturns(p)
  \/ \E x \in FieldValues : CallMutator(x)
  \/ \E f \in Fields : MutateWithState(f)

SpecMutator == Init /\ [][NextMutator]_vars

\* One Provider, a tree of nested Consumers below it, mutate and re-renders
\* of the component that renders the tree
NextNest ==
  \/ \E init \in InitialStates(FreshRef(LiveRefs, 0)) : componentDidMount(1, init)
  \/ \E props \in [Consumers -> NestProps] : TreeMount(props)
  \/ TreeUnmount
  \/ \E r \in Recipes : mutate(r)
  \/ \E p \in Providers : HandlerReturns(p)
  \/ ParentRender(1)
  \/ \E init \in InitialStates(FreshRef(LiveRefs, 0)) : ProviderRerender(1, init)

SpecNest == Init /\ [][NextNest]_vars

\* Reference calls only.  First a tree with one Consumer per tagged selector
\* mounts, componentDidMount running in selector order; then further
\* Consumers mount one at a time, each with one tagged selector.  None of
\* them unmounts.
NumSelectors == NumFill + NumActive + NumExtra

\* the number of optimizeSelector calls not undone: f[1] + ... + f[n]
RECURSIVE SumTo(_, _)
SumTo(f, n) == IF n = 0 THEN 0 ELSE f[n] + SumTo(f, n - 1)

ReferenceEachInOrder ==
  /\ fillLevel = 0
  /\ Pristine
  /\ SetOptimizer(optimizeAll(Optimizer, Upto(NumSelectors)))
  /\ fillLevel' = NumSelectors
  /\ rendered' = {}
  /\ last' = Quiet("fillerMount", TRUE, NumSelectors)
  /\ UNCHANGED <<variant, middlewares, storeVars, consumer, changedBits>>

ReferenceAgain(s, cap) ==
  /\ fillLevel > 0
  /\ SumTo(selectorReferenceCount, NumSelectors) < fillLevel + cap
  /\ LET O == optimizeSelector(Optimizer, s)
     IN /\ SetOptimizer(O)
        /\ last' = Quiet("reference", ~O.err, s)
  /\ rendered' = {}
  /\ UNCHANGED <<variant, middlewares, storeVars, consumer, fillLevel, changedBits>>

NextWindow ==
  \/ ReferenceEachInOrder
  \/ \E s \in Tagged : ReferenceAgain(s, MaxFurther)

SpecWindow == InitOpt /\ [][NextWindow]_vars

\* Bits run out and are released one at a time: a tree of Consumers mounts,
\* further Consumers mount with the selectors outside the tree and stay, and
\* the Consumers of the tree unmount one by one from its end.
NextRelease ==
  \/ \E k \in FillSizes : FillerMount(k)
  \/ \E s \in Active \cup Extra : ReferenceAgain(s, MaxWaiting)
  \/ FillerUnmountOne

SpecRelease == InitOpt /\ [][NextRelease]_vars

\* A Consumer that mounted with a plain function as its selector (which
\* optimizeSelector ignores) and was re-rendered with the tagged selector s
\* unmounts: componentWillUnmount dereferences s.
Dereference(s) ==
  /\ fillLevel > 0
  /\ LET O == deoptimizeSelector(Optimizer, s)
     IN /\ WithinCaps(O)
        /\ SetOptimizer(O)
        /\ last' = Quiet("dereference", ~O.err, s)
  /\ rendered' = {}
  /\ UNCHANGED <<variant, middlewares, storeVars, consumer, fillLevel, changedBits>>

\* References and dereferences of the selectors outside the tree, in any
\* order, while the tree holds most of the bits
NextDeref ==
  \/ \E k \in FillSizes : FillerMount(k)
  \/ \E s \in Active \cup Extra : ReferenceAgain(s, MaxWaiting)
  \/ \E s \in Active \cup Extra : Dereference(s)
  \/ FillerUnmountOne

SpecDeref == InitOpt /\ [][NextDeref]_vars

-----------------------------------------------------------------------------
(* The store and its Providers *)

\* C1: in every iteration, when produce returns a reference other than the
\* held snapshot, mutate/update replaces the held snapshot with it and then
\* invokes the registered provider listener exactly once before it returns,
\* so that the listener reads the new snapshot: what it hands to setState is
\* the new snapshot, and the state the Provider publishes once React has
\* processed the call (at once, or when the event handler returns) has the
\* snapshot's value of every field the snapshot has.
C1_ListenerReadsNewSnapshot ==
  /\ [][(last'.op = "mutate" /\ last'.produced \notin {-1, currentState.ref})
          => /\ currentState'.ref = last'.produced
             /\ last'.calls = 1
             /\ last'.who = providerListener
             /\ last'.read = currentState'.ref
             /\ ListenerRead(providerListener)]_vars
  /\ [][last'.op = "handlerReturns"
          => /\ last'.who = providerListener
             /\ provider'[last'.who].pending = <<>>
             /\ \A f \in Fields :
                  currentState.val[f] # -1 =>
                    provider'[last'.who].state.val[f] = currentState.val[f]]_vars

\* a mutate has just replaced the snapshot, and the listener read the new one
C1_Witness ==
  /\ last.op = "mutate"
  /\ last.calls = 1
  /\ last.produced # 0
  /\ last.read = currentState.ref
  /\ provider[last.who].state.val = currentState.val
  /\ currentState.val # baseState.val

\* C3: mutate/update called while no Provider is registered (providerListener
\* is null) throws at once: the recipe is not run, the held snapshot and the
\* Providers are unchanged and no listener is invoked.
C3_MutateWithoutProviderThrows ==
  [][(last'.op = "mutate" /\ providerListener = Null)
       => /\ ~last'.ok
          /\ last'.produced = -1
          /\ last'.calls = 0
          /\ currentState' = currentState
          /\ provider' = provider
          /\ providerListener' = Null]_vars

\* a mutate with an assigning recipe was refused after a Provider had come and gone
C3_Witness ==
  /\ last.op = "mutate"
  /\ last.arg = "set"
  /\ ~last.ok
  /\ providerListener = Null
  /\ \A p \in Providers : provider[p].status = "unmounted"

\* C4 (as claimed): at most one Provider is registered at any time: a Provider
\* whose componentDidMount succeeded, and which is still mounted, is the one
\* the registration points at (a rejected second mount leaves it so, and later
\* mutate calls notify it).
C4_Original ==
  \A p \in Providers : provider[p].status = "mounted" => providerListener = p

\* C5 (as claimed): the store is Ready exactly while the Provider that
\* registered itself is mounted: providerListener becomes non-null only by the
\* successful mount of a Provider, which it then names, and becomes null only
\* by the unmount of the Provider it names.
C5_Original ==
  [][/\ (providerListener = Null /\ providerListener' # Null)
          => (last'.op = "providerMount" /\ last'.ok /\ last'.who = providerListener')
     /\ (providerListener # Null /\ providerListener' # providerListener)
          => (/\ last'.op = "providerUnmount"
              /\ last'.who = providerListener
              /\ providerListener' = Null)
     /\ (last'.op = "providerUnmount" /\ last'.who = providerListener)
          => providerListener' = Null]_vars

-----------------------------------------------------------------------------
(* Rendering *)

\* C2: a mutate whose recipe changes nothing (an empty recipe, or an
\* assignment of the value the field already has) leaves the held snapshot
\* the same object, invokes no provider listener, changes no Provider's state
\* and runs no Consumer's render callback.
C2_NoChangeNoBroadcast ==
  [][(/\ last'.op = "mutate"
      /\ \/ last'.arg = "noop"
         \/ last'.arg = "set" /\ currentState'.val = currentState.val)
       => /\ currentState' = currentState
          /\ last'.calls = 0
          /\ provider' = provider
          /\ consumer' = consumer
          /\ rendered' = {}]_vars

\* an assignment of a field's current value was accepted with a Consumer
\* mounted below the registered Provider, and nothing rendered
C2_Witness ==
  /\ last.op = "mutate"
  /\ last.arg = "set"
  /\ last.ok
  /\ last.calls = 0
  /\ last.produced = currentState.ref
  /\ providerListener # Null
  /\ \E c \in Consumers : consumer[c].mounted /\ consumer[c].under = providerListener
  /\ rendered = {}

-----------------------------------------------------------------------------
(* Changed bits and the selector optimisation *)

RECURSIVE OrBitsOf(_)
OrBitsOf(S) ==
  IF S = {} THEN 0
  ELSE LET s == CHOOSE t \in S : TRUE
       IN BitOr(observedBits[s], OrBitsOf(S \ {s}))

\* C6 (as claimed): the changed bits computed when a Provider publishes a new
\* state are the sentinel bit 1 OR-ed with the assigned bit of every optimized
\* selector s with s(old) !== s(new), and with no other bit.
C6_Original ==
  [][(variant = "optimized" /\ Publishes)
       => changedBits' =
            BitOr(DEOPTIMIZED_SELECTOR,
                  OrBitsOf({s \in optimizedSelectors :
                              StrictNotEqual(Apply(s, provider[last'.who].state),
                                             Apply(s, provider'[last'.who].state))}))]_vars

\* the selectors that hold an assigned bit
Assigned == {s \in Tagged : observedBits[s] # DEOPTIMIZED_SELECTOR}

\* the selectors with a reference-count entry
Tracked == {s \in Tagged : selectorReferenceCount[s] > 0}

InQueue(s) == \E i \in 1..Len(optimizationQueue) : optimizationQueue[i] = s

\* C7: bit uniqueness: after any sequence of Consumer mounts and unmounts no
\* two selectors hold the same assigned bit.
C7_BitUniqueness ==
  \A s, t \in Assigned : s # t => observedBits[s] # observedBits[t]

\* every bit is assigned, one of them to a selector that waited in the queue
\* for it, and another selector waits
C7_Witness ==
  /\ selectorBits = <<>>
  /\ optimizationQueue # <<>>
  /\ \E s \in Active : s \in Assigned /\ selectorReferenceCount[s] > 1

\* C8: pool conservation: the number of bits in the pool plus the number of
\* bits assigned to selectors is 29, and no bit is both in the pool and
\* assigned.
C8_PoolConservation ==
  /\ Len(selectorBits) + Cardinality(Assigned) = 29
  /\ \A i \in 1..Len(selectorBits) : \A s \in Assigned : selectorBits[i] # observedBits[s]
  /\ \A i, j \in 1..Len(selectorBits) : i # j => selectorBits[i] # selectorBits[j]

\* bits have been taken until none was left, and some have come back since
C8_Witness ==
  /\ last.op = "fillerUnmount"
  /\ Len(selectorBits) \in 1..28
  /\ \E s \in Active : s \in Assigned

\* C9 (as claimed): window invariant: the selectors holding an assigned bit
\* are the (up to 29) tracked selectors with the highest reference counts: no
\* tracked selector without a bit has a higher count than one with a bit, and
\* a tracked selector is without a bit only when all 29 are assigned.
C9_Original ==
  /\ \A t \in Tracked \ Assigned : \A s \in Assigned :
       selectorReferenceCount[t] <= selectorReferenceCount[s]
  /\ Tracked \ Assigned # {} => Cardinality(Assigned) = 29
  /\ Assigned \subseteq Tracked

\* the number of mounted Consumers using selector s (each use is one
\* reference call not yet matched by a dereference call)
Uses(s) ==
  Cardinality({ci \in Consumers \X (1..2) :
                 /\ consumer[ci[1]].mounted
                 /\ ci[2] <= Len(consumer[ci[1]].sels)
                 /\ consumer[ci[1]].sels[ci[2]] = s})
  + (IF s <= fillLevel THEN 1 ELSE 0)

\* C10 (as claimed): reference/dereference symmetry: a selector whose every
\* reference call has been matched by a dereference call is no longer tracked:
\* it has no reference count, is not queued and holds no bit.
C10_Original ==
  \A s \in Tagged :
    Uses(s) = 0 => /\ selectorReferenceCount[s] = 0
                   /\ ~InQueue(s)
                   /\ s \notin Assigned
                   /\ s \notin optimizedSelectors

\* C11: when every one of the 32 tagged selectors of a fresh state instance
\* has been referenced once, in order, the first 29 hold pairwise distinct
\* optimized bits and the others keep the sentinel 1; after any further
\* reference calls on these selectors exactly 29 of them are optimized.
C11_First29Optimized ==
  fillLevel = NumSelectors =>
    /\ \A s \in Tagged : s <= 29 <=> observedBits[s] # DEOPTIMIZED_SELECTOR
    /\ \A s, t \in 1..29 : s # t => observedBits[s] # observedBits[t]
    /\ Cardinality(Assigned) = 29
    /\ Cardinality(optimizedSelectors) = 29

\* after the first round an optimized and an unoptimized selector have both
\* been referenced again
C11_Witness ==
  /\ fillLevel = NumSelectors
  /\ NumSelectors >= 32
  /\ last.op = "reference"
  /\ \E s \in 1..29 : selectorReferenceCount[s] = 2
  /\ \E t \in Tagged : t > 29 /\ selectorReferenceCount[t] = 2 /\ observedBits[t] = 1

\* positions of the queue whose selector is still unoptimized
Waiting == {i \in 1..Len(optimizationQueue) :
              observedBits[optimizationQueue[i]] = DEOPTIMIZED_SELECTOR}

\* the selector that has waited longest
OldestWaiting == optimizationQueue[CHOOSE i \in Waiting : \A j \in Waiting : i <= j]

\* C12 (as claimed): when the only reference of an optimized selector is
\* dropped while unoptimized selectors wait in the queue, the same operation
\* grants its bit to the one that was queued first.
C12_Original ==
  [][(/\ last'.op = "fillerUnmountOne"
      /\ fillLevel \in optimizedSelectors
      /\ selectorReferenceCount[fillLevel] = 1
      /\ Waiting # {})
       => observedBits'[OldestWaiting] = observedBits[fillLevel]]_vars

\* C13 (as claimed): at the end of a dereference operation the pool has no
\* available bit while a selector in the queue is still unoptimized.
C13_Original ==
  last.op \in {"fillerUnmountOne", "fillerUnmount", "consumerUnmount"}
    => ~(Len(selectorBits) > 0 /\ Waiting # {})

-----------------------------------------------------------------------------
(* Memoization of the Consumers *)

\* C14 (as claimed): in the iterations that compare by reference, a context
\* update re-invokes a Consumer's render callback exactly when the newly
\* selected value is not identical (!==) to the one rendered before, with an
\* array of selectors exactly when some selector's value is not identical;
\* also when a single selector returns an array.
C14_Original ==
  [][(variant # "select" /\ last'.op = "contextUpdate")
       => LET c == last'.who
          IN (c \in rendered') <=>
               (\E i \in 1..Len(consumer'[c].shown) :
                  StrictNotEqual(consumer'[c].shown[i], consumer[c].shown[i]))]_vars

\* the selectors of Consumer c
SelectorsOf(c) == {consumer[c].sels[i] : i \in 1..Len(consumer[c].sels)}

\* The observed-bits mask a Consumer renders with is the OR, over its
\* selectors, of the assigned bit of a selector that is optimized when the
\* Consumer renders and of the sentinel 1 for any other selector (untagged
\* or unoptimized).
C15_MaskAtRender ==
  [][last'.op \in {"consumerMount", "consumerProps"}
       => LET c == last'.who
              sels == consumer'[c].sels
              used == {sels[i] : i \in 1..Len(sels)}
              optimized == {s \in used : observedBits[s] > DEOPTIMIZED_SELECTOR}
          IN consumer'[c].bits =
               BitOr(OrBitsOf(optimized),
                     IF optimized # used THEN DEOPTIMIZED_SELECTOR ELSE 0)]_vars

\* C15 (as claimed): the mask of a Consumer has the sentinel bit 1 for every
\* selector of it that is not optimized at present; hence a mounted Consumer
\* with a selector that is not optimized has bit 1 in its mask, and its mask
\* meets the changed bits of any broadcast.
C15_Original ==
  \A c \in Consumers :
    (consumer[c].mounted /\ \E s \in SelectorsOf(c) : s \notin Assigned)
      => /\ consumer[c].bits % 2 = 1
         /\ \A y \in SelectedObjects :
              BitAnd(calculateChangedBits(baseState, y), consumer[c].bits) # 0


\* C16: in the iteration with the `select` prop, when the parent of a Consumer
\* re-renders, the callback of that Consumer and of every Consumer nested
\* below it is invoked again, although every selected value is what it was;
\* the version id of each of them has gone up.
C16_ParentRenderInvokesCallback ==
  [][(last'.op = "parentRender" /\ variant = "select")
       => \A d \in Consumers :
            consumer[d].mounted
              => /\ d \in rendered'
                 /\ consumer'[d].shown = consumer[d].shown
                 /\ consumer'[d].id = consumer[d].id + 1]_vars

C16_Witness ==
  /\ variant = "select"
  /\ last = Quiet("parentRender", TRUE, 1)
  /\ rendered = Consumers
  /\ \A d \in Consumers \ {1} : consumer[d].mounted /\ consumer[d].within = d - 1
  /\ consumer[NumConsumers].id = MaxId

\* two selected values, numbers or objects, are shallowly equal: the same
\* number, the same object, or two objects with the same fields holding the
\* same values
ShallowlySame(x, y) ==
  IF IsPrim(x) \/ IsPrim(y)
  THEN /\ IsPrim(x) /\ IsPrim(y)
       /\ \/ x.val = y.val
          \/ x.val >= SubBase /\ y.val >= SubBase /\ x.val % 2 = y.val % 2
  ELSE x.ref = y.ref \/ \A f \in Fields : x.val[f] = y.val[f]

\* C17: in the iteration with the `select` prop, an update of the Provider's
\* state (by a mutate, or by the mutates of an event handler when it returns)
\* that reaches the Consumers through the context re-invokes the callback of a Consumer exactly
\* when one of its selected values is not shallowly equal to the one it was
\* rendered with: a new object with the fields unchanged causes no re-render,
\* nor does a change of fields the Consumer does not select.
C17_ShallowEqualMemoization ==
  [][(variant = "select" /\ Publishes)
       => \A c \in Consumers :
            consumer[c].mounted
              => ((c \in rendered') <=>
                    \E i \in 1..Len(consumer[c].shown) :
                      ~ShallowlySame(consumer'[c].shown[i], consumer[c].shown[i]))]_vars

\* `delete draft.b` was broadcast: the Consumer of the whole state has been
\* handed a new object with the fields of the old one, the Consumer of field
\* a the value it had, and neither callback ran
\* a field holding { name: 0 } was assigned a new { name: 0 }: the Consumer of
\* the field has been handed the new object and its callback did not run
C17_NestedSeen ==
  /\ variant = "select"
  /\ last.op = "mutate" /\ last.arg = "setObj" /\ last.calls = 1
  /\ rendered = {}
  /\ \E c \in Consumers :
       /\ consumer[c].mounted /\ consumer[c].sels = <<-1>>
       /\ consumer[c].shown[1].val = currentState.val["a"]

C17_Witness ==
  /\ variant = "select"
  /\ last.op = "mutate" /\ last.arg = "del" /\ last.calls = 1
  /\ Idle
  /\ rendered = {}
  /\ \E c, d \in Consumers :
       /\ consumer[c].mounted /\ consumer[c].sels = <<identityFn>>
       /\ consumer[c].shown[1].ref = provider[1].state.ref
       /\ consumer[c].shown[1].val["b"] = 0
       /\ consumer[d].mounted /\ consumer[d].sels = <<-1>>

-----------------------------------------------------------------------------
(* A recipe that throws *)

\* C19: when the recipe handed to mutate/update throws, the call throws, the
\* store holds the very snapshot it held, the provider listener is not
\* invoked, and no Provider's state changes.
C19_ThrowLeavesStore ==
  [][(last'.op = "mutate" /\ last'.arg = "throw")
       => /\ ~last'.ok
          /\ currentState' = currentState
          /\ last'.calls = 0
          /\ providerListener' = providerListener
          /\ provider' = provider]_vars

\* a recipe threw in a store with a registered Provider and a snapshot that
\* earlier mutates had produced
C19_Witness ==
  /\ last.op = "mutate" /\ last.arg = "throw" /\ ~last.ok
  /\ providerListener # Null
  /\ currentState.ref # baseState.ref
  /\ provider[providerListener].state.ref % 2 = 1

-----------------------------------------------------------------------------
(* The initialState prop *)

\* C20: a Provider that mounts with an initialState prop makes it the store's
\* snapshot (and its own state), and the mutate that follows is applied to
\* it: the new snapshot differs from initialState in the one field the recipe
\* assigned.  A re-render of a mounted Provider, whatever its initialState
\* prop then is, changes neither the snapshot nor the state the Provider
\* publishes.
C20_InitialStateOnMountOnly ==
  /\ [][(last'.op = "providerMount" /\ last'.ok /\ last'.arg = "initialState")
          => LET p == last'.who
             IN /\ currentState' = provider'[p].state
                /\ currentState'.ref \notin LiveRefs
                /\ providerListener' = p]_vars
  /\ [][(/\ last.op = "providerMount" /\ last.ok /\ last.arg = "initialState"
         /\ last'.op = "mutate" /\ last'.calls = 1)
          => LET init == provider[last.who].state
             IN /\ Cardinality({f \in Fields : currentState'.val[f] # init.val[f]}) = 1
                /\ ListenerRead(last.who)]_vars
  /\ [][last'.op = "providerUpdate"
          => /\ currentState' = currentState
             /\ provider' = provider
             /\ providerListener' = providerListener]_vars

\* a Provider that mounted with initialState, and has published nothing else
\* since, was re-rendered with another initialState prop
C20_Witness ==
  /\ last.op = "providerUpdate" /\ last.arg = "initialState"
  /\ provider[1].status = "mounted"
  /\ provider[1].state = currentState
  /\ currentState.ref # baseState.ref
  /\ \E c \in Consumers : consumer[c].mounted

-----------------------------------------------------------------------------
(* Structural sharing *)

\* C18: a mutate that changes field X gives a snapshot in which every other
\* field holds what it held before, the very same nested object if it held
\* one; and the listener hands the new snapshot to setState, so that the
\* state the Provider publishes holds in every field what the snapshot holds.
C18_StructuralSharing ==
  [][(last'.op = "mutate" /\ last'.calls = 1)
       => LET p == providerListener
              changed == {f \in Fields : currentState'.val[f] # currentState.val[f]}
          IN /\ Cardinality(changed) = 1
             /\ currentState'.ref # currentState.ref
             /\ \A f \in Fields \ changed : currentState'.val[f] = currentState.val[f]
             /\ ListenerRead(p)]_vars

\* an assignment inside the object of one field was broadcast while the other
\* field held an object too
C18_Witness ==
  /\ last.op = "mutate" /\ last.arg = "setIn" /\ last.calls = 1
  /\ \A f \in Fields : IsSub(currentState.val[f])
  /\ providerListener # Null
  /\ provider[providerListener].state.val = currentState.val

-----------------------------------------------------------------------------
(* mutate before the Provider has mounted *)

\* C21 (as claimed): a mutate called while no Provider has registered yet
\* (from the componentDidMount of a child, which runs before the Provider's)
\* does not fail.
C21_Original ==
  [][(last'.op = "mutate" /\ providerListener = Null /\ last'.arg # "throw")
       => last'.ok]_vars

-----------------------------------------------------------------------------
(* createMutator *)

\* C22 (as claimed): a call of the function createMutator(fn) returned, with
\* argument x, is one update whose recipe calls fn(draft, x): with fn =
\* (draft, x) => { draft.a = x } field a holds x afterwards; the call throws
\* when no Provider is registered, and broadcasts exactly when a changed.
C22_Original ==
  [][(last'.op = "mutate" /\ last'.arg \in MutatorCalls)
       => IF providerListener = Null
          THEN ~last'.ok /\ currentState' = currentState
          ELSE /\ last'.ok
               /\ currentState'.val["a"] = CallArg(last'.arg)
               /\ last'.calls = (IF currentState.val["a"] = CallArg(last'.arg)
                                 THEN 0 ELSE 1)]_vars

-----------------------------------------------------------------------------
(* The recipe's second argument *)

\* C23: in the iteration whose mutate hands the recipe (draft, state), state
\* is the snapshot the store holds when mutate is called: the recipe draft.f =
\* state.f + 1 raises f by exactly one, whatever mutates came before (those
\* of the same event handler too), is handed to the Provider, and leaves the
\* other fields alone.
C23_StateArgIsSnapshot ==
  [][(variant = "select" /\ last'.op = "mutate" /\ last'.arg = "inc" /\ last'.ok)
       => /\ \E f \in Fields :
               /\ currentState'.val[f] = currentState.val[f] + 1
               /\ \A g \in Fields \ {f} : currentState'.val[g] = currentState.val[g]
          /\ last'.calls = 1
          /\ ListenerRead(providerListener)]_vars

\* the recipe has counted field a up to the cap, one by one
C23_Witness ==
  /\ variant = "select"
  /\ last.op = "mutate" /\ last.arg = "inc" /\ last.ok /\ last.calls = 1
  /\ currentState.val["a"] = MaxValue

-----------------------------------------------------------------------------
(* createSelector *)

\* C24 (as claimed): createSelector(fn) leaves fn tagged with observedBits =
\* 1 and changes neither the pool, the reference counts nor the queue; the tag
\* of a selector no Consumer has referenced changes only when a Consumer using
\* it mounts.
C24_Original ==
  /\ [][last'.op = "createSelector"
          => /\ observedBits'[last'.who] = DEOPTIMIZED_SELECTOR
             /\ \A s \in Selectors \ {last'.who} : observedBits'[s] = observedBits[s]
             /\ UNCHANGED <<selectorBits, selectorReferenceCount, optimizationQueue,
                            optimizedSelectors>>]_vars
  /\ [][\A s \in Active :
          (/\ observedBits[s] = DEOPTIMIZED_SELECTOR
           /\ selectorReferenceCount[s] = 0
           /\ ~InQueue(s)
           /\ observedBits'[s] # DEOPTIMIZED_SELECTOR)
            => /\ last'.op = "consumerMount"
               /\ \E i \in 1..Len(consumer'[last'.who].sels) :
                    consumer'[last'.who].sels[i] = s]_vars

\* C24 (amended): that holds in the iteration with the selector optimisation;
\* in the iteration with the `select` prop createSelector returns fn as it
\* is, with no observedBits, and there is no pool, count or queue to change.
C24_CreateSelectorTags ==
  /\ [][last'.op = "createSelector"
          => /\ observedBits'[last'.who] =
                  (IF variant = "optimized" THEN DEOPTIMIZED_SELECTOR ELSE 0)
             /\ \A s \in Selectors \ {last'.who} : observedBits'[s] = observedBits[s]
             /\ UNCHANGED <<selectorBits, selectorReferenceCount, optimizationQueue,
                            optimizedSelectors>>]_vars
  /\ [][\A s \in Active :
          (/\ variant = "optimized"
           /\ observedBits[s] = DEOPTIMIZED_SELECTOR
           /\ selectorReferenceCount[s] = 0
           /\ ~InQueue(s)
           /\ observedBits'[s] # DEOPTIMIZED_SELECTOR)
            => /\ last'.op = "consumerMount"
               /\ selectorReferenceCount'[s] = 1
               /\ \E i \in 1..Len(consumer'[last'.who].sels) :
                    consumer'[last'.who].sels[i] = s]_vars

\* a selector was created while another one held a bit and a reference
C24_Witness ==
  /\ variant = "optimized"
  /\ last.op = "createSelector"
  /\ observedBits[last.who] = DEOPTIMIZED_SELECTOR
  /\ \E s \in Active : observedBits[s] > DEOPTIMIZED_SELECTOR /\ selectorReferenceCount[s] > 0
  /\ Len(selectorBits) < Len(InitialSelectorBits)

-----------------------------------------------------------------------------
(* The bit pool *)

RECURSIVE Pow2(_)
Pow2(n) == IF n = 0 THEN 1 ELSE 2 * Pow2(n - 1)

\* C25: the pool is a stack.  On a fresh state instance the first tagged
\* selector whose Consumer mounts gets 2^29, the next ones 2^28, 2^27, ...;
\* a selector that gets a bit gets the one on top of the stack, which is the
\* bit released last if a released bit is still free; a released bit goes on
\* top of the stack.
C25_PoolIsStack ==
  /\ [][last'.op = "fillerMount"
          => \A i \in 1..last'.who : i <= 29 => observedBits'[i] = Pow2(30 - i)]_vars
  /\ [][(last'.op = "consumerMount" /\ Len(consumer'[last'.who].sels) = 1)
          => LET s == consumer'[last'.who].sels[1]
             IN (observedBits[s] = DEOPTIMIZED_SELECTOR /\ observedBits'[s] # observedBits[s])
                  => /\ Len(selectorBits) > 0
                     /\ observedBits'[s] = selectorBits[Len(selectorBits)]
                     /\ selectorBits' = SubSeq(selectorBits, 1, Len(selectorBits) - 1)
                     /\ Pristine => observedBits'[s] = Pow2(29)]_vars
  /\ [][(last'.op = "consumerUnmount" /\ Len(consumer[last'.who].sels) = 1)
          => LET s == consumer[last'.who].sels[1]
             IN (observedBits[s] > DEOPTIMIZED_SELECTOR /\ observedBits'[s] # observedBits[s]
                   /\ optimizationQueue = <<>>)
                  => selectorBits' = Append(selectorBits, observedBits[s])]_vars

\* bit 4 was released, then bit 2, and the selector of the Consumer that has
\* just mounted got bit 2 while bit 4 is free
C25_Witness ==
  /\ last.op = "consumerMount"
  /\ fillLevel = NumFill - 2
  /\ selectorBits = <<4>>
  /\ \E s \in Active : observedBits[s] = 2 /\ consumer[last.who].sels = <<s>>


\* C26 (as claimed): a dereference of a createSelector-tagged selector that is
\* not tracked raises an error, and leaves the pool, the reference counts and
\* the queue as they were.
C26_Original ==
  [][(/\ last'.op = "consumerUnmount"
      /\ \E i \in 1..Len(consumer[last'.who].sels) :
           LET s == consumer[last'.who].sels[i]
           IN observedBits[s] # 0 /\ selectorReferenceCount[s] = 0)
       => /\ ~last'.ok
          /\ UNCHANGED <<selectorBits, selectorReferenceCount, optimizationQueue>>]_vars


\* C27: a reference to a selector that is tracked with count 1 raises its
\* count to 2 and changes the count, the bit and the optimized status of no
\* other selector.
C27_SecondReference ==
  [][(last'.op = "reference" /\ selectorReferenceCount[last'.who] = 1)
       => /\ selectorReferenceCount'[last'.who] = 2
          /\ \A t \in Selectors \ {last'.who} :
               /\ selectorReferenceCount'[t] = selectorReferenceCount[t]
               /\ observedBits'[t] = observedBits[t]
               /\ (t \in optimizedSelectors') = (t \in optimizedSelectors)]_vars

\* a selector outside the tree holds a bit and has just been referenced a
\* second time, while the selectors of the tree hold theirs
C27_Witness ==
  /\ last.op = "reference"
  /\ selectorReferenceCount[last.who] = 2
  /\ observedBits[last.who] > DEOPTIMIZED_SELECTOR
  /\ last.who \in optimizedSelectors
  /\ fillLevel = NumFill - 1
  /\ \A t \in 1..fillLevel : selectorReferenceCount[t] = 1

\* C28: with no bit left in the pool, a reference to a tagged selector that
\* holds no bit raises no error, leaves it the sentinel 1, counts the
\* reference, appends the selector to the queue, and takes the bit of no other
\* selector.
C28_EmptyPoolQueues ==
  [][(/\ last'.op = "reference"
      /\ selectorBits = <<>>
      /\ observedBits[last'.who] = DEOPTIMIZED_SELECTOR)
       => /\ last'.ok
          /\ observedBits'[last'.who] = DEOPTIMIZED_SELECTOR
          /\ selectorReferenceCount'[last'.who] = selectorReferenceCount[last'.who] + 1
          /\ optimizationQueue' = Append(optimizationQueue, last'.who)
          /\ selectorBits' = <<>>
          /\ \A t \in Selectors \ {last'.who} : observedBits'[t] = observedBits[t]]_vars

\* all 29 bits are held by the selectors of the tree and a further selector
\* has just been referenced: it waits in the queue with the sentinel
C28_Witness ==
  /\ last.op = "reference"
  /\ fillLevel = NumFill
  /\ selectorBits = <<>>
  /\ observedBits[last.who] = DEOPTIMIZED_SELECTOR
  /\ selectorReferenceCount[last.who] >= 1
  /\ Len(optimizationQueue) > 0
  /\ optimizationQueue[Len(optimizationQueue)] = last.who
  /\ \A t \in 1..NumFill : observedBits[t] > DEOPTIMIZED_SELECTOR



\* C29 (as claimed): a selector in the reference tracker has a count of at
\* least 1 (count 0 stands for no entry: no count is negative, and a selector
\* of the optimized set has an entry); and when a dereference brings the count
\* of a selector from 1 to zero, afterwards the selector has no entry, carries
\* the sentinel and is not in the optimized set.
C29_Original ==
  /\ [](\A s \in Selectors :
          /\ selectorReferenceCount[s] >= 0
          /\ s \in optimizedSelectors => selectorReferenceCount[s] >= 1)
  /\ [][(/\ last'.op = "dereference"
         /\ last'.ok
         /\ last'.who \in optimizedSelectors
         /\ selectorReferenceCount[last'.who] = 1)
          => /\ selectorReferenceCount'[last'.who] = 0
             /\ observedBits'[last'.who] = DEOPTIMIZED_SELECTOR
             /\ last'.who \notin optimizedSelectors']_vars


\* the 29 values 2^1 .. 2^29
PoolValues == {Pow2(k) : k \in 1..29}

\* C30: the pool of a fresh instance is exactly 2^1 .. 2^29, each once; after
\* any sequence of references and dereferences every value in the pool and
\* every bit a selector holds is one of these 29: never the sentinel 1 and
\* never 2^30 or more.
C30_PoolValues ==
  /\ last.op = "init" => selectorBits = [i \in 1..29 |-> Pow2(i)]
  /\ \A i \in 1..Len(selectorBits) :
       /\ selectorBits[i] \in PoolValues
       /\ selectorBits[i] # DEOPTIMIZED_SELECTOR
       /\ selectorBits[i] < Pow2(30)
  /\ \A s \in Selectors :
       /\ observedBits[s] \in {0, DEOPTIMIZED_SELECTOR} \cup PoolValues
       /\ s \in optimizedSelectors =>
            /\ observedBits[s] \in PoolValues
            /\ observedBits[s] # DEOPTIMIZED_SELECTOR
            /\ observedBits[s] < Pow2(30)

\* bits were taken and given back: the selectors of the tree hold theirs, a
\* selector outside the tree holds 2^1, and 2^2 is back in the pool
C30_Witness ==
  /\ last.op = "dereference"
  /\ fillLevel = NumFill - 2
  /\ selectorBits = <<Pow2(2)>>
  /\ \E s \in Active : s \in optimizedSelectors /\ observedBits[s] = Pow2(1)
  /\ observedBits[1] = Pow2(29)


\* C31: in the iteration with the `select` prop, the unmount of a Provider
\* clears the registered listener and sets the snapshot back to baseState,
\* whatever mutations and initialState came before; and a Provider that mounts
\* without initialState while none is registered publishes baseState.
C31_UnmountResetsSnapshot ==
  /\ [][(variant = "select" /\ last'.op = "providerUnmount")
          => /\ providerListener' = Null
             /\ currentState' = baseState]_vars
  /\ [][(/\ variant = "select"
         /\ last'.op = "providerMount"
         /\ last'.ok
         /\ last'.arg = "")
          => /\ provider'[last'.who].state = baseState
             /\ currentState' = baseState]_vars

\* a Provider has just unmounted and the snapshot is baseState again, while
\* another instance still holds the state a mutation or an initialState left
C31_Witness ==
  /\ variant = "select"
  /\ last.op = "providerUnmount"
  /\ providerListener = Null
  /\ currentState = baseState
  /\ \E p \in Providers : provider[p].state # baseState


\* C32: in the iteration with middlewares, an update that gets past the
\* invariant enters m1, m2, ..., mn in this order and then the built-in
\* middleware, as far as each middleware hands the call on, and reaches the
\* built-in one when all of them do; the snapshot is replaced and the
\* Provider notified only by a call that reached the built-in middleware, and
\* then exactly when produce returned another reference than getState().
C32_MiddlewareChain ==
  [][(last'.op = "mutate" /\ providerListener # Null)
       => LET n == Len(middlewares)
              t == last'.passed
              reached == Len(t) = n + 1
          IN /\ Len(t) >= 1
             /\ Len(t) <= n + 1
             /\ \A i \in 1..Len(t) : t[i] = IF i <= n THEN i ELSE updateMiddleWare
             /\ (\A i \in 1..n : middlewares[i] = "pass") => reached
             /\ (\E i \in 1..n : middlewares[i] = "drop") => ~reached
             /\ ~reached => (currentState' = currentState /\ last'.calls = 0
                               /\ provider' = provider)
             /\ (reached /\ last'.ok)
                  => IF last'.produced # currentState.ref
                     THEN /\ currentState'.ref = last'.produced
                          /\ last'.calls = 1
                          /\ ListenerRead(providerListener)
                     ELSE /\ currentState' = currentState
                          /\ last'.calls = 0
                          /\ provider' = provider]_vars

\* an update went through two middlewares and the built-in one, which stored
\* the new state and notified the Provider
C32_Witness ==
  /\ last.op = "mutate"
  /\ Len(middlewares) = 2
  /\ last.passed = <<1, 2, updateMiddleWare>>
  /\ last.calls = 1
  /\ currentState.ref = last.produced
  /\ currentState # baseState


\* C33 (as claimed): the recorded reference count of every tagged selector
\* equals the number of mounted Consumers using it (no entry when there is
\* none), also while the pool is exhausted and across promotions from the
\* queue.
C33_Original ==
  \A s \in Tagged : selectorReferenceCount[s] = Uses(s)

\* C34 (as claimed): no leaked bits: a selector holds an assigned bit only
\* while a mounted Consumer uses it, and when no Consumer is mounted all 29
\* bits are in the pool, no selector carries an optimized bit and the queue
\* is empty.
C34_Original ==
  /\ \A s \in Tagged : observedBits[s] > DEOPTIMIZED_SELECTOR => Uses(s) >= 1
  /\ (\A s \in Tagged : Uses(s) = 0)
       => /\ Len(selectorBits) = 29
          /\ \A s \in Tagged : observedBits[s] <= DEOPTIMIZED_SELECTOR
          /\ optimizationQueue = <<>>


\* C35 (as claimed): no missed update through the bitmask: when an update
\* changes the value s(state) of an optimized selector s, the changed bits of
\* the broadcast meet the observed bits of every mounted Consumer whose only
\* selector is s, and each of them is rendered with the new value.
C35_Original ==
  [][(variant = "optimized" /\ Publishes)
       => \A c \in Consumers : \A s \in Tagged :
            (/\ consumer[c].mounted
             /\ consumer[c].under = last'.who
             /\ consumer[c].sels = <<s>>
             /\ s \in optimizedSelectors
             /\ StrictNotEqual(Apply(s, provider[last'.who].state),
                               Apply(s, provider'[last'.who].state)))
              => /\ BitAnd(changedBits', consumer[c].bits) # 0
                 /\ c \in rendered'
                 /\ consumer'[c].shown = <<Apply(s, provider'[last'.who].state)>>]_vars


\* C36 (as claimed): the selectors a Consumer dereferences at unmount are
\* the selectors it referenced at mount, also when its selector prop was
\* changed in between: the unmount leaves the optimisation state that
\* dereferencing the selectors referenced at mount gives.
C36_Original ==
  [][last'.op = "consumerUnmount"
       => LET O == deoptimizeAll(Optimizer, consumer[last'.who].referenced)
          IN /\ observedBits' = O.tag
             /\ selectorBits' = O.pool
             /\ optimizationQueue' = O.queue
             /\ selectorReferenceCount' = O.count
             /\ optimizedSelectors' = O.opt]_vars


\* C37 (as claimed): after every mutate that changes the snapshot, the value
\* the Provider publishes (once React has processed the update) has exactly the top-level fields and field values of
\* the snapshot; a field the recipe removed is absent from it.
C37_Original ==
  [][Publishes => provider'[last'.who].state.val = currentState'.val]_vars


\* C38 (as claimed): in the two iterations the claim cites, whenever a
\* Provider is mounted and no update of it waits (between operations), the
\* state it publishes has the content of the closure-held current state, the
\* base of the next mutate; also for a Provider mounted without
\* initialState after an earlier one was unmounted following mutations.
C38_Original ==
  (variant \in {"initial", "optimized"} /\ Idle)
    => \A p \in Providers :
         provider[p].status = "mounted" => provider[p].state.val = currentState.val

=============================================================================
